---- MODULE Spec2Model ----
(***************************************************************************)
(* Model of createHepData_all.py (HEPData generator for EXO-23-016).       *)
(*                                                                         *)
(* Python strings that the code inspects (histogram names, axis titles)    *)
(* are sequences of one-character strings, so that lower(), the `in'       *)
(* substring test and replace() are computed as Python computes them.      *)
(***************************************************************************)
EXTENDS Integers, Sequences, FiniteSets, TLC

(***************************************************************************)
(* Bounds of the model.                                                    *)
(***************************************************************************)
\* longest list of histograms collect_hists_from_canvas returns
MaxHists == 3
\* most variables of one kind an externally authored record declares
MaxVars == 2
\* longest list of values handed to create_dependent_variable on its own
MaxPoints == 2
\* longest list of histograms of a canvas in the runs over several files
RunHists == 1
\* most marks in the name of a histogram handed to create_variable_name
MaxMarks == 3

(***************************************************************************)
(* Python str operations.                                                  *)
(***************************************************************************)
\* str.lower() on one character
LowerChar(c) ==
    CASE c = "A" -> "a" [] c = "B" -> "b" [] c = "C" -> "c" [] c = "D" -> "d"
      [] c = "E" -> "e" [] c = "F" -> "f" [] c = "G" -> "g" [] c = "H" -> "h"
      [] c = "I" -> "i" [] c = "J" -> "j" [] c = "K" -> "k" [] c = "L" -> "l"
      [] c = "M" -> "m" [] c = "N" -> "n" [] c = "O" -> "o" [] c = "P" -> "p"
      [] c = "Q" -> "q" [] c = "R" -> "r" [] c = "S" -> "s" [] c = "T" -> "t"
      [] c = "U" -> "u" [] c = "V" -> "v" [] c = "W" -> "w" [] c = "X" -> "x"
      [] c = "Y" -> "y" [] c = "Z" -> "z" [] OTHER -> c

\* str.lower()
Lower(s) == [i \in 1..Len(s) |-> LowerChar(s[i])]

\* s starts with sub at position i
MatchAt(sub, s, i) ==
    /\ i + Len(sub) - 1 <= Len(s)
    /\ SubSeq(s, i, i + Len(sub) - 1) = sub

\* Python `sub in s'
Contains(sub, s) == \E i \in 1..(Len(s) + 1) : MatchAt(sub, s, i)

\* str.replace(old, new) for a non-empty old: left to right, non-overlapping
RECURSIVE ReplaceFrom(_, _, _, _)
ReplaceFrom(s, old, new, i) ==
    IF i > Len(s) THEN <<>>
    ELSE IF MatchAt(old, s, i)
         THEN new \o ReplaceFrom(s, old, new, i + Len(old))
         ELSE <<s[i]>> \o ReplaceFrom(s, old, new, i + 1)

Replace(s, old, new) == ReplaceFrom(s, old, new, 1)

(***************************************************************************)
(* String literals of the source.                                          *)
(***************************************************************************)
sRatio == <<"r", "a", "t", "i", "o">>
sDataMC == <<"D", "a", "t", "a", "/", "M", "C">>
sCopy == <<"_", "c", "o", "p", "y">>
sEfficiency == <<"E", "f", "f", "i", "c", "i", "e", "n", "c", "y">>

sFigure41a == <<"F", "i", "g", "u", "r", "e", "4", "1", "a">>
sFigure41b == <<"F", "i", "g", "u", "r", "e", "4", "1", "b">>
sFigure41c == <<"F", "i", "g", "u", "r", "e", "4", "1", "c">>
sFigure42a == <<"F", "i", "g", "u", "r", "e", "4", "2", "a">>
sFigure42b == <<"F", "i", "g", "u", "r", "e", "4", "2", "b">>
sFigure42c == <<"F", "i", "g", "u", "r", "e", "4", "2", "c">>
sFigure43a == <<"F", "i", "g", "u", "r", "e", "4", "3", "a">>
sFigure43b == <<"F", "i", "g", "u", "r", "e", "4", "3", "b">>
sFigure40 == <<"F", "i", "g", "u", "r", "e", "4", "0">>
sFigure99 == <<"F", "i", "g", "u", "r", "e", "9", "9">>
sGeVBr == <<"[", "G", "e", "V", "]">>
sCmBr == <<"[", "c", "m", "]">>
sDotRoot == <<".", "r", "o", "o", "t">>
sDotYaml == <<".", "y", "a", "m", "l">>
sDotPdf == <<".", "p", "d", "f">>
sImageMagick == <<"I", "m", "a", "g", "e", "M", "a", "g", "i", "c", "k">>
sConvert == <<"c", "o", "n", "v", "e", "r", "t">>
sDoesNotExist == <<"d", "o", "e", "s", " ", "n", "o", "t", " ", "e", "x", "i", "s", "t">>
sMuonRun3HLTRun2 == <<"M", "u", "o", "n", "R", "u", "n", "3", "H", "L", "T", "R", "u", "n", "2">>
sDisplacedL3 == <<"D", "i", "s", "p", "l", "a", "c", "e", "d", "L", "3">>
sdTks == <<"d", "T", "k", "s">>
sL3VetoOR == <<"L", "3", "V", "e", "t", "o", "O", "R">>
sHData2022 == <<"H", "D", "a", "t", "a", "2", "0", "2", "2">>
s2023 == <<"2", "0", "2", "3">>
s2022 == <<"2", "0", "2", "2">>
sMuon == <<"M", "u", "o", "n">>
sJetMET == <<"J", "e", "t", "M", "E", "T">>
sBtoJPsi == <<"B", "t", "o", "J", "P", "s", "i">>
sCOSMI == <<"C", "O", "S", "M", "I">>

\* str.strip(): leading and trailing blanks removed
RECURSIVE LStrip(_)
LStrip(s) == IF s # <<>> /\ Head(s) = " " THEN LStrip(Tail(s)) ELSE s

RECURSIVE RStrip(_)
RStrip(s) ==
    IF s # <<>> /\ s[Len(s)] = " " THEN RStrip(SubSeq(s, 1, Len(s) - 1)) ELSE s

Strip(s) == RStrip(LStrip(s))

(***************************************************************************)
(* ROOT histograms (TH1).  A histogram is a record                         *)
(*   name, y_title, x_title : character sequences                          *)
(*   bins : sequence of [low, width, content, error], bin i of ROOT being  *)
(*          bins[i] (ROOT numbers the bins from 1).                        *)
(***************************************************************************)
GetName(hist) == hist.name
GetYaxisTitle(hist) == hist.y_title
GetXaxisTitle(hist) == hist.x_title
GetNbinsX(hist) == Len(hist.bins)
GetBinLowEdge(hist, i) == hist.bins[i].low
GetBinWidth(hist, i) == hist.bins[i].width
GetBinCenter(hist, i) == hist.bins[i].low + (hist.bins[i].width \div 2)
GetBinContent(hist, i) == hist.bins[i].content
GetBinError(hist, i) == hist.bins[i].error

\* extract_histogram_data(hist)
extract_histogram_data(hist) ==
    LET n_bins == GetNbinsX(hist) IN
    [ x_centers |-> [i \in 1..n_bins |-> GetBinCenter(hist, i)],
      x_low     |-> [i \in 1..n_bins |-> GetBinLowEdge(hist, i)],
      x_high    |-> [i \in 1..n_bins |->
                        GetBinLowEdge(hist, i) + GetBinWidth(hist, i)],
      y_values  |-> [i \in 1..n_bins |-> GetBinContent(hist, i)],
      y_errors  |-> [i \in 1..n_bins |-> GetBinError(hist, i)] ]

(***************************************************************************)
(* hepdata_lib objects.  A Variable is a record                            *)
(*   name, is_independent, is_binned, units, values,                       *)
(*   uncertainties : sequence of [label, is_symmetric, values],            *)
(*   qualifiers    : sequence of [name, value, units].                     *)
(* A str the code only passes on is a sequence of chunks; the chunks are   *)
(* single characters wherever the code looks inside the str.               *)
(***************************************************************************)
Variable(name, is_independent, is_binned, units) ==
    [ name |-> name, is_independent |-> is_independent,
      is_binned |-> is_binned, units |-> units, values |-> <<>>,
      uncertainties |-> <<>>, qualifiers |-> <<>> ]

Uncertainty(label, is_symmetric) ==
    [ label |-> label, is_symmetric |-> is_symmetric, values |-> <<>> ]

\* Variable.add_uncertainty
add_uncertainty(var, unc) ==
    [var EXCEPT !.uncertainties = Append(@, unc)]

\* Variable.add_qualifier(name, value, units="")
add_qualifier(var, name, value, units) ==
    [var EXCEPT !.qualifiers =
        Append(@, [name |-> name, value |-> value, units |-> units])]

\* Table.add_variable
add_variable(table, var) ==
    [table EXCEPT !.variables = Append(@, var)]

\* create_binned_variable(name, x_low, x_high, units, is_independent)
create_binned_variable(name, x_low, x_high, units, is_independent) ==
    LET var == Variable(name, is_independent, TRUE, units)
        bin_edges == [i \in 1..Len(x_low) |-> <<x_low[i], x_high[i]>>]
    IN [var EXCEPT !.values = bin_edges]

\* a Python value that is a list or None
PyList(items) == [is_none |-> FALSE, items |-> items]
PyNone == [is_none |-> TRUE, items |-> <<>>]

\* Python truth of `y_errors and any(err > 0 for err in y_errors)'
HasPositiveError(y_errors) ==
    /\ ~y_errors.is_none
    /\ y_errors.items # <<>>
    /\ \E i \in 1..Len(y_errors.items) : y_errors.items[i] > 0

\* create_dependent_variable attaching zeros when there is no positive error
create_dependent_variable_Fabricates(name, y_values, y_errors, units, uncertainty_label) ==
    LET var == [Variable(name, FALSE, FALSE, units) EXCEPT !.values = y_values]
        unc == [Uncertainty(uncertainty_label, TRUE) EXCEPT
                   !.values = IF HasPositiveError(y_errors)
                              THEN y_errors.items
                              ELSE [i \in 1..Len(y_values) |-> 0]]
    IN add_qualifier(add_uncertainty(var, unc),
                     <<"SQRT(S)">>, <<"13.6">>, <<"TeV">>)

\* create_dependent_variable(name, y_values, y_errors, units,
\*                           uncertainty_label, CME=13.6)
create_dependent_variable(name, y_values, y_errors, units, uncertainty_label) ==
    LET var == [Variable(name, FALSE, FALSE, units) EXCEPT !.values = y_values]
        unc == [Uncertainty(uncertainty_label, TRUE) EXCEPT
                   !.values = y_errors.items]
        var2 == IF HasPositiveError(y_errors)
                THEN add_uncertainty(var, unc)
                ELSE var
    IN add_qualifier(var2, <<"SQRT(S)">>, <<"13.6">>, <<"TeV">>)

\* get_figure_metadata(figure_name)
KnownFigures ==
    { sFigure41a, sFigure41b, sFigure41c, sFigure42a, sFigure42b,
      sFigure42c, sFigure43a, sFigure43b, sFigure40 }

get_figure_metadata_Blank(figure_name) ==
    IF figure_name \in KnownFigures
    THEN [ description |-> <<"description of ">> \o figure_name,
           location |-> <<"Data from ">> \o figure_name ]
    ELSE [ description |-> <<>>, location |-> <<>> ]

get_figure_metadata(figure_name) ==
    IF figure_name \in KnownFigures
    THEN [ description |-> <<"description of ">> \o figure_name,
           location |-> <<"Data from ">> \o figure_name ]
    ELSE [ description |-> <<"PLACEHOLDER: Description for ">> \o figure_name,
           location |-> <<"PLACEHOLDER: Location for ">> \o figure_name ]

get_x_axis_info_Verbatim(x_axis_title, figure_name) ==
    LET title == x_axis_title IN
    IF figure_name = sFigure41a THEN << <<"min($p_T$)">>, <<"GeV">> >>
    ELSE IF figure_name = sFigure41b THEN << <<"max($p_T$)">>, <<"GeV">> >>
    ELSE IF figure_name = sFigure41c THEN << <<"min($d_0$)">>, <<"cm">> >>
    ELSE IF figure_name \in {sFigure42a, sFigure42b}
         THEN << <<"min($d_0$)">>, <<"cm">> >>
    ELSE IF figure_name \in {sFigure42c, sFigure43b}
         THEN << <<"$m_{\\mu\\mu}$">>, <<"GeV">> >>
    ELSE IF figure_name = sFigure43a THEN << <<"min($d_0$)">>, <<"cm">> >>
    ELSE IF Contains(sGeVBr, title)
         THEN << Strip(Replace(title, sGeVBr, <<>>)), <<"GeV">> >>
    ELSE IF Contains(sCmBr, title)
         THEN << Strip(Replace(title, sCmBr, <<>>)), <<"cm">> >>
    ELSE << title, <<>> >>

\* get_x_axis_info(x_axis_title, figure_name): <<name, units>>
get_x_axis_info(x_axis_title, figure_name) ==
    LET title == Strip(x_axis_title) IN
    IF figure_name = sFigure41a THEN << <<"min($p_T$)">>, <<"GeV">> >>
    ELSE IF figure_name = sFigure41b THEN << <<"max($p_T$)">>, <<"GeV">> >>
    ELSE IF figure_name = sFigure41c THEN << <<"min($d_0$)">>, <<"cm">> >>
    ELSE IF figure_name \in {sFigure42a, sFigure42b}
         THEN << <<"min($d_0$)">>, <<"cm">> >>
    ELSE IF figure_name \in {sFigure42c, sFigure43b}
         THEN << <<"$m_{\\mu\\mu}$">>, <<"GeV">> >>
    ELSE IF figure_name = sFigure43a THEN << <<"min($d_0$)">>, <<"cm">> >>
    ELSE IF Contains(sGeVBr, title)
         THEN << Strip(Replace(title, sGeVBr, <<>>)), <<"GeV">> >>
    ELSE IF Contains(sCmBr, title)
         THEN << Strip(Replace(title, sCmBr, <<>>)), <<"cm">> >>
    ELSE << IF title # <<>> THEN title ELSE <<"Variable">>, <<>> >>

\* the generic rules of create_variable_name (the efficiency plots)
GenericVariableName(hist_name) ==
    IF Contains(sdTks, hist_name)
    THEN <<"Run 3 (2022, L3 dTks) trigger efficiency">>
    ELSE IF Contains(sDisplacedL3, hist_name) /\ Contains(sMuon, hist_name)
    THEN <<"Run 3 (2022, L3) trigger efficiency">>
    ELSE IF Contains(sDisplacedL3, hist_name) /\ Contains(sJetMET, hist_name)
    THEN IF Contains(s2022, hist_name)
         THEN <<"Run 3 (2022, L3) trigger efficiency - 2022 data">>
         ELSE IF Contains(s2023, hist_name)
         THEN <<"Run 3 (2022, L3) trigger efficiency - 2023 data">>
         ELSE <<"Run 3 (2022, L3) trigger efficiency">>
    ELSE IF Contains(sBtoJPsi, hist_name)
    THEN <<"Run 3 (2022, L3) trigger efficiency - simulation">>
    ELSE IF Contains(sCOSMI, hist_name)
    THEN IF Contains(s2022, hist_name)
         THEN <<"Run 3 (2022, L2) trigger efficiency - 2022 data">>
         ELSE IF Contains(s2023, hist_name)
         THEN <<"Run 3 (2022, L2) trigger efficiency - 2023 data">>
         ELSE <<"Run 3 (2022, L2) trigger efficiency">>
    ELSE IF Contains(sRatio, hist_name)
    THEN <<"Data/MC ratio">>
    ELSE <<"Efficiency (">> \o hist_name \o <<")">>

create_variable_name_GenericOnly(hist_name, figure_name) == GenericVariableName(hist_name)

\* create_variable_name(hist_name, figure_name)
create_variable_name(hist_name, figure_name) ==
    IF figure_name = sFigure42c /\ Contains(sMuonRun3HLTRun2, hist_name)
    THEN <<"Run 2 (2018) observed events">>
    ELSE IF /\ figure_name = sFigure42c
            /\ Contains(sDisplacedL3, hist_name)
            /\ ~Contains(sdTks, hist_name)
    THEN <<"Run 3 (2022, L3) observed events">>
    ELSE IF figure_name = sFigure42c /\ Contains(sdTks, hist_name)
    THEN <<"Run 3 (2022, L3 dTks) observed events">>
    ELSE IF figure_name = sFigure43b /\ Contains(sMuonRun3HLTRun2, hist_name)
    THEN <<"Run 2 (2018) observed events">>
    ELSE IF figure_name = sFigure43b /\ Contains(sL3VetoOR, hist_name)
    THEN <<"Run 3 (2022, L2) observed events">>
    ELSE IF figure_name = sFigure42a /\ Contains(sHData2022, hist_name)
    THEN <<"Run 3 (2022, L3) trigger efficiency - 2022 data">>
    ELSE IF figure_name = sFigure42a /\ Contains(s2023, hist_name)
    THEN <<"Run 3 (2022, L3) trigger efficiency - 2023 data">>
    ELSE GenericVariableName(hist_name)

\* Table(name)
Table(name) ==
    [ name |-> name, description |-> <<>>, location |-> <<>>,
      keywords |-> <<>>, image_files |-> <<>>, variables |-> <<>> ]

\* Table.add_image(path)
add_image(table, path) == [table EXCEPT !.image_files = Append(@, path)]

\* check_imagemagick_available(): the outcome of running `convert -version'
ProbeOutcomes == {"exit_zero", "exit_nonzero", "timeout", "not_found"}

\* subprocess.run ends in one more way: an OSError that is not a
\* FileNotFoundError (convert is there and may not be executed)
RunOutcomes == ProbeOutcomes \cup {"os_error"}

check_imagemagick_available_Ran(outcome) ==
    outcome \in {"exit_zero", "exit_nonzero"}

check_imagemagick_available(outcome) == outcome = "exit_zero"

\* the except clause of line 56 does not name the exception: it leaves the
\* function
check_imagemagick_raises(outcome) == outcome \notin ProbeOutcomes

(***************************************************************************)
(* The filtering loop of process_single_figure.                            *)
(***************************************************************************)
\* the test that skips the histograms of the ratio panels
IsRatioHistogram(hist) ==
    \/ Contains(sRatio, Lower(GetName(hist)))
    \/ Contains(sDataMC, GetYaxisTitle(hist))

\* base_name = hist_name.replace("_copy", "")
base_name(hist_name) == Replace(hist_name, sCopy, <<>>)

\* FilterStep with the test of the y title left out
FilterStep_NameOnly(acc, hist) ==
    IF Contains(sRatio, Lower(GetName(hist))) THEN acc
    ELSE IF base_name(GetName(hist)) \in acc.processed_names THEN acc
    ELSE [ processed_names  |->
               acc.processed_names \cup {base_name(GetName(hist))},
           unique_histograms |-> Append(acc.unique_histograms, hist) ]

\* FilterStep remembering only the name retained last
FilterStep_LastOnly(acc, hist) ==
    IF IsRatioHistogram(hist) THEN acc
    ELSE IF base_name(GetName(hist)) \in acc.processed_names THEN acc
    ELSE [ processed_names  |-> {base_name(GetName(hist))},
           unique_histograms |-> Append(acc.unique_histograms, hist) ]

\* FilterStep testing for a duplicate, and recording the name, before the
\* test for a ratio panel
FilterStep_NamesRatio(acc, hist) ==
    IF base_name(GetName(hist)) \in acc.processed_names THEN acc
    ELSE IF IsRatioHistogram(hist)
    THEN [acc EXCEPT !.processed_names = @ \cup {base_name(GetName(hist))}]
    ELSE [ processed_names  |->
               acc.processed_names \cup {base_name(GetName(hist))},
           unique_histograms |-> Append(acc.unique_histograms, hist) ]

\* FilterStep recording the name as it is, with its "_copy"
FilterStep_RawName(acc, hist) ==
    IF IsRatioHistogram(hist) THEN acc
    ELSE IF base_name(GetName(hist)) \in acc.processed_names THEN acc
    ELSE [ processed_names  |-> acc.processed_names \cup {GetName(hist)},
           unique_histograms |-> Append(acc.unique_histograms, hist) ]

\* one iteration of `for hist in histograms' on the pair
\* [processed_names, unique_histograms]
FilterStep(acc, hist) ==
    IF IsRatioHistogram(hist) THEN acc
    ELSE IF base_name(GetName(hist)) \in acc.processed_names THEN acc
    ELSE [ processed_names  |->
               acc.processed_names \cup {base_name(GetName(hist))},
           unique_histograms |-> Append(acc.unique_histograms, hist) ]

\* the whole loop, from the empty set and the empty list
RECURSIVE FilterFrom(_, _, _)
FilterFrom(acc, histograms, i) ==
    IF i > Len(histograms) THEN acc
    ELSE FilterFrom(FilterStep(acc, histograms[i]), histograms, i + 1)

FilterHistograms(histograms) ==
    FilterFrom([processed_names |-> {}, unique_histograms |-> <<>>],
               histograms, 1).unique_histograms

(***************************************************************************)
(* File names: os.listdir, str.endswith, list.sort.                        *)
(***************************************************************************)
\* the characters of file names, in code-point order
Alphabet ==
    << ".", "0", "1", "2", "3", "4", "5", "6", "7", "8", "9",
       "A", "B", "C", "D", "E", "F", "G", "H", "I", "J", "K", "L", "M",
       "N", "O", "P", "Q", "R", "S", "T", "U", "V", "W", "X", "Y", "Z", "_",
       "a", "b", "c", "d", "e", "f", "g", "h", "i", "j", "k", "l", "m",
       "n", "o", "p", "q", "r", "s", "t", "u", "v", "w", "x", "y", "z" >>

Ord(c) == CHOOSE i \in 1..Len(Alphabet) : Alphabet[i] = c

\* Python's order of str: a < b
RECURSIVE StrLess(_, _)
StrLess(a, b) ==
    IF b = <<>> THEN FALSE
    ELSE IF a = <<>> THEN TRUE
    ELSE IF Head(a) = Head(b) THEN StrLess(Tail(a), Tail(b))
    ELSE Ord(Head(a)) < Ord(Head(b))

\* str.endswith(suffix)
EndsWith(s, suffix) ==
    /\ Len(suffix) <= Len(s)
    /\ SubSeq(s, Len(s) - Len(suffix) + 1, Len(s)) = suffix

\* a set of distinct names as a list, in some order (os.listdir)
RECURSIVE SetToSeq(_)
SetToSeq(S) ==
    IF S = {} THEN <<>>
    ELSE LET x == CHOOSE x \in S : TRUE IN <<x>> \o SetToSeq(S \ {x})

\* sorted([f for f in os.listdir(dir) if f.endswith(ext)])
SortedFiles(listing, ext) ==
    SortSeq(SetToSeq({f \in listing : EndsWith(f, ext)}), StrLess)

(***************************************************************************)
(* Inputs: what the canvases hold and what the directories list.           *)
(***************************************************************************)
sX == <<"X">>
sXcopy == <<"X", "_", "c", "o", "p", "y">>
sY == <<"Y">>
sHRatio == <<"h", "_", "R", "a", "t", "i", "o">>
sAcopyB == <<"A", "_", "c", "o", "p", "y", "B">>
sAB == <<"A", "B">>
sEvents == <<"E", "v", "e", "n", "t", "s">>
sPtGeV == <<"p", "T", " ", "[", "G", "e", "V", "]">>

\* n contiguous bins of width 10 from 0 with the given contents and errors
Bins(contents, errors) ==
    [i \in 1..Len(contents) |->
        [low |-> 10 * (i - 1), width |-> 10,
         content |-> contents[i], error |-> errors[i]]]

Hist(name, y_title, contents, errors) ==
    [name |-> name, y_title |-> y_title, x_title |-> sPtGeV,
     bins |-> Bins(contents, errors)]

hX == Hist(sX, sEfficiency, <<5, 6>>, <<0, 0>>)
hXcopy == Hist(sXcopy, sEfficiency, <<5, 6>>, <<1, 2>>)
hY == Hist(sY, sEfficiency, <<7, 8, 9>>, <<1, 0, 2>>)
hRatio == Hist(sHRatio, sEfficiency, <<1>>, <<1>>)
hDataMC == Hist(sY, sDataMC, <<1, 1, 1, 1>>, <<1, 1, 1, 1>>)
hAcopyB == Hist(sAcopyB, sEvents, <<3, 4>>, <<1, 1>>)
hAB == Hist(sAB, sEvents, <<3, 4>>, <<2, 0>>)

HistPool == {hX, hXcopy, hY, hRatio, hDataMC, hAcopyB, hAB}

\* the lists of at most n histograms of the pool
ListsUpTo(S, n) == UNION {[1..k -> S] : k \in 0..n}

HistLists == ListsUpTo(HistPool, MaxHists)

\* two histograms with the mark dTks in their names
hdTks2022 == Hist(<<"h", "_", "d", "T", "k", "s", "_", "2", "0", "2", "2">>, sEfficiency, <<5, 6>>, <<1, 1>>)
hdTks2023 == Hist(<<"h", "_", "d", "T", "k", "s", "_", "2", "0", "2", "3">>, sEfficiency, <<7, 8>>, <<1, 1>>)

\* a canvas with a ratio panel, a histogram, its copy and another histogram;
\* a canvas with the two histograms with dTks in their names
ScenarioLists == { <<hRatio, hX, hXcopy, hY>>, <<hdTks2022, hdTks2023>> }

fFigure99Root == sFigure99 \o sDotRoot
fFigure99Pdf == sFigure99 \o sDotPdf
fFigure40Yaml == sFigure40 \o sDotYaml
fFigure99Yaml == sFigure99 \o sDotYaml
fFigure41aRoot == sFigure41a \o sDotRoot
\* a file whose name holds the extension twice
fFigure41aRootRoot == sFigure41a \o sDotRoot \o sDotRoot

(***************************************************************************)
(* Canonical records (the result of yaml.safe_load).  A mapping is a       *)
(* function on the set of its keys, so `key in mapping' is a test on       *)
(* DOMAIN and mapping[key] of an absent key raises KeyError.               *)
(***************************************************************************)
ivCtau ==
    [ header |-> [name |-> <<"ctau">>, units |-> <<"cm">>],
      values |-> << [value |-> 1], [value |-> 2] >> ]
ivMass ==
    [ header |-> [name |-> <<"mass">>],
      values |-> << [value |-> 1], [value |-> 2], [value |-> 3] >> ]

qSqrtS == [name |-> <<"SQRT(S)">>, value |-> <<"13.6">>, units |-> <<"TeV">>]
qLumi == [name |-> <<"LUMINOSITY">>, value |-> <<"34.7">>]
eStat == [symerror |-> 1, label |-> <<"stat">>]

dvEff ==
    [ header |-> [name |-> <<"Efficiency">>],
      values |-> << [value |-> 5, errors |-> <<eStat>>],
                    [value |-> 6, errors |-> <<eStat>>] >>,
      qualifiers |-> <<qSqrtS, qLumi>> ]
dvPlain ==
    [ header |-> [name |-> <<"Run 2">>],
      values |-> << [value |-> 7], [value |-> 8], [value |-> 9] >> ]
\* a malformed variable: one entry of values has no `value'
dvBad ==
    [ header |-> [name |-> <<"Run 3">>],
      values |-> << [value |-> 7], [symerror |-> 1] >> ]

IndepPool == {ivCtau, ivMass}
DepPool == {dvEff, dvPlain, dvBad}

\* the records: each of the two keys absent, or a list of variables
YamlRecords ==
    { r \in UNION { [K -> ListsUpTo(IndepPool \cup DepPool, MaxVars)] :
                      K \in SUBSET {"independent_variables",
                                    "dependent_variables"} } :
        /\ "independent_variables" \in DOMAIN r =>
              \A i \in 1..Len(r["independent_variables"]) :
                  r["independent_variables"][i] \in IndepPool
        /\ "dependent_variables" \in DOMAIN r =>
              \A i \in 1..Len(r["dependent_variables"]) :
                  r["dependent_variables"][i] \in DepPool }

\* dict.get(key, default)
Get(mapping, key, default) ==
    IF key \in DOMAIN mapping THEN mapping[key] ELSE default

\* the body of `for indep_var in ...' runs without KeyError
IndepVarReadable(indep_var) ==
    /\ "header" \in DOMAIN indep_var
    /\ "name" \in DOMAIN indep_var.header
    /\ "values" \in DOMAIN indep_var
    /\ \A i \in 1..Len(indep_var.values) : "value" \in DOMAIN indep_var.values[i]

\* the Variable built from one entry of independent_variables
IndepVarFromRecord(indep_var) ==
    LET var_name == indep_var.header.name
        var_units == Get(indep_var.header, "units", <<>>)
        var_values == indep_var.values
        var == Variable(var_name, TRUE, FALSE, var_units)
    IN [var EXCEPT !.values = [i \in 1..Len(var_values) |-> var_values[i].value]]

\* the body of `for dep_var in ...' runs without KeyError
DepVarReadable(dep_var) ==
    /\ "header" \in DOMAIN dep_var
    /\ "name" \in DOMAIN dep_var.header
    /\ "values" \in DOMAIN dep_var
    /\ \A i \in 1..Len(dep_var.values) : "value" \in DOMAIN dep_var.values[i]
    /\ \A i \in 1..Len(Get(dep_var, "qualifiers", <<>>)) :
          {"name", "value"} \subseteq DOMAIN dep_var.qualifiers[i]

\* `for qualifier in qualifiers: var.add_qualifier(name, value)'
RECURSIVE AddQualifiers(_, _, _)
AddQualifiers(var, qualifiers, i) ==
    IF i > Len(qualifiers) THEN var
    ELSE AddQualifiers(
             add_qualifier(var, qualifiers[i].name, qualifiers[i].value, <<>>),
             qualifiers, i + 1)

\* the Variable built from one entry of dependent_variables
DepVarFromRecord(dep_var) ==
    LET var_name == dep_var.header.name
        var_values == dep_var.values
        qualifiers == Get(dep_var, "qualifiers", <<>>)
        var == Variable(var_name, FALSE, FALSE, <<>>)
        var2 == [var EXCEPT !.values =
                    [i \in 1..Len(var_values) |-> var_values[i].value]]
    IN AddQualifiers(var2, qualifiers, 1)

(***************************************************************************)
(* State.                                                                  *)
(***************************************************************************)
VARIABLES
    pc,                 \* position in main and in the function it called
    fs,                 \* the environment: what os.listdir gives for the two
                        \* directories, what `convert -version' does, whether
                        \* add_image fails, how long the lists of the canvases are
    yaml_files,         \* main: sorted names of the record files
    root_files,         \* main: sorted names of the ROOT files
    file_idx,           \* main: position of the loop over the files
    tables,             \* submission.tables
    successful_figures, \* main: the tally
    figure_name,        \* argument of the function called
    root_file,          \* process_single_figure: "none", "open", "closed"
    histograms,         \* process_single_figure: collect_hists_from_canvas
    hist_idx,           \* process_single_figure: position of the loops
    processed_names,    \* process_single_figure
    unique_histograms,  \* process_single_figure
    yaml_content,       \* process_existing_yaml_file
    var_idx,            \* process_existing_yaml_file: position of the loops
    table,              \* the Table under construction
    ret,                \* value returned: "none", "True" or "False"
    fn_call,            \* a function called on its own: name and arguments
    fn_result,          \* what that call returned
    summary_printed,    \* main: the tally has been printed (line 982)
    writer_calls,       \* main: calls of submission.create_files so far
    write_error         \* main: str(e) of the first failure of the writer

vars ==
    << pc, fs, yaml_files, root_files, file_idx, tables, successful_figures,
       figure_name, root_file, histograms, hist_idx, processed_names,
       unique_histograms, yaml_content, var_idx, table, ret,
       fn_call, fn_result, summary_printed, writer_calls, write_error >>

\* what main has printed and written
output == << summary_printed, writer_calls, write_error >>

\* the call of one function on its own
unit == << fn_call, fn_result >>

NoCall == [fn |-> "none"]
NoResult == [done |-> FALSE]

\* the locals of the two functions
locals ==
    << figure_name, root_file, histograms, hist_idx, processed_names,
       unique_histograms, yaml_content, var_idx, table, ret >>

\* the variables of main
globals ==
    << fs, yaml_files, root_files, file_idx, tables, successful_figures >>

NoTable == Table(<<>>)

\* the Tables main adds before the two loops: builder, argument
StaticTablesBefore ==
    << <<"makeHcalTowerEffTable">>, <<"makeHcalLLPflaggedJetEffTable">>,
       <<"makeHcalL1JetHTEffTable", "HT">>, <<"makeHcalL1JetHTEffTable", "jet">>,
       <<"makeHcalL1DecayREffTable">>,
       <<"makeDelayedDiPhotonHistTable", "eb">>,
       <<"makeDelayedDiPhotonHistTable", "ee">>,
       <<"makeDelayedDiPhotonDataRateTable">>,
       <<"makeDelayedDiPhotonDataEffTable", "seed time">>,
       <<"makeDelayedDiPhotonDataEffTable", "pT">>,
       <<"makeDelayedDiPhotonDataEffTable", "eta">>,
       <<"makeDisplacedMuonL1EffTable", "BMTF">>,
       <<"makeDisplacedMuonL1EffTable", "OMTF">>,
       <<"makeDisplacedMuonL1EffTable", "EMTF">> >>

\* a Table of one of the fixed builders: its variables come from files the
\* builder reads and are not modelled; every builder adds its image
StaticTable(builder) ==
    [ name |-> builder, keywords |-> <<>>,
      image_files |-> << <<"image of ">> \o builder >> ]

\* the Tables main adds after the two loops: builder, argument
StaticTablesAfter ==
    << <<"makeDoubleDispL3MuonSigEffTable">>,
       <<"makeDoubleDispL3MuonDataMCEffTable", "min d0">>,
       <<"makeDoubleDispL3MuonDataMCEffTable", "min pT">>,
       <<"makeMuonNoBPTXRateVsNBunchesTable", "2016">>,
       <<"makeMuonNoBPTXRateVsNBunchesTable", "2017">>,
       <<"makeMuonNoBPTXRateVsNBunchesTable", "2018">>,
       <<"makeMuonNoBPTXRateVsNBunchesTable", "2022">>,
       <<"makeMuonNoBPTXRateVsNBunchesTable", "2023">>,
       <<"makeMuonNoBPTXRateVsNBunchesTable", "2024">> >>

\* the Tables of the first n builders of a list
StaticTables(builders, n) == [i \in 1..n |-> StaticTable(builders[i])]

\* the state of the locals outside a call
LocalsIdle ==
    /\ figure_name = <<>>
    /\ root_file = "none"
    /\ histograms = <<>>
    /\ hist_idx = 1
    /\ processed_names = {}
    /\ unique_histograms = <<>>
    /\ yaml_content = <<>>
    /\ var_idx = 1
    /\ table = NoTable
    /\ ret = "none"

LocalsReset ==
    /\ figure_name' = <<>>
    /\ root_file' = "none"
    /\ histograms' = <<>>
    /\ hist_idx' = 1
    /\ processed_names' = {}
    /\ unique_histograms' = <<>>
    /\ yaml_content' = <<>>
    /\ var_idx' = 1
    /\ table' = NoTable
    /\ ret' = "none"

\* the start of main for a given content of the two directories
InitWith(listings) ==
    /\ pc = "main"
    /\ fs \in listings
    /\ yaml_files = <<>>
    /\ root_files = <<>>
    /\ file_idx = 1
    /\ tables = <<>>
    /\ successful_figures = 0
    /\ LocalsIdle
    /\ fn_call = NoCall
    /\ fn_result = NoResult
    /\ summary_printed = FALSE
    /\ writer_calls = 0
    /\ write_error = <<>>

(***************************************************************************)
(* main, up to the two loops.                                              *)
(***************************************************************************)
\* lines 896-952: the probe, the Submission and the Tables of the fixed
\* builders; an exception of the probe at line 898 is not caught
\* read_abstract or one of the builders may raise (a file it reads is not
\* there): nothing catches it and the run is over
MainPrologue ==
    /\ pc = "main"
    /\ UNCHANGED unit
    /\ UNCHANGED output
    /\ IF check_imagemagick_raises(fs.convert)
       THEN /\ tables' = tables
            /\ pc' = "aborted"
       ELSE \E n \in 0..Len(StaticTablesBefore) :
               /\ tables' = StaticTables(StaticTablesBefore, n)
               /\ pc' = IF n = Len(StaticTablesBefore)
                        THEN "yaml_dir" ELSE "aborted"
    /\ UNCHANGED << fs, yaml_files, root_files, file_idx, successful_figures >>
    /\ UNCHANGED locals

\* lines 955-958: the directory of the record files exists
ListYamlFiles ==
    /\ pc = "yaml_dir"
    /\ UNCHANGED unit
    /\ UNCHANGED output
    /\ yaml_files' = SortedFiles(fs.yaml_dir, sDotYaml)
    /\ file_idx' = 1
    /\ pc' = "yaml_loop"
    /\ UNCHANGED << fs, root_files, tables, successful_figures >>
    /\ UNCHANGED locals

\* line 956: the directory of the record files does not exist
SkipYamlDir ==
    /\ pc = "yaml_dir"
    /\ UNCHANGED unit
    /\ UNCHANGED output
    /\ pc' = "root_dir"
    /\ UNCHANGED globals
    /\ UNCHANGED locals

\* lines 969-971; os.listdir raises when the directory is not there, nothing
\* catches it and the run is over
ListRootFiles ==
    /\ pc = "root_dir"
    /\ UNCHANGED unit
    /\ UNCHANGED output
    /\ IF fs.data_dir_exists
       THEN /\ root_files' = SortedFiles(fs.data_dir, sDotRoot)
            /\ pc' = "root_loop"
       ELSE /\ root_files' = root_files
            /\ pc' = "aborted"
    /\ file_idx' = 1
    /\ UNCHANGED << fs, yaml_files, tables, successful_figures >>
    /\ UNCHANGED locals

(***************************************************************************)
(* process_single_figure(submission, root_file_path, figure_name).         *)
(***************************************************************************)
\* lines 973-977: main calls the function for the next ROOT file
RootLoopCall ==
    /\ pc = "root_loop"
    /\ UNCHANGED unit
    /\ UNCHANGED output
    /\ file_idx <= Len(root_files)
    /\ figure_name' = Replace(root_files[file_idx], sDotRoot, <<>>)
    /\ pc' = "psf_open"
    /\ UNCHANGED globals
    /\ UNCHANGED << root_file, histograms, hist_idx, processed_names,
                    unique_histograms, yaml_content, var_idx, table, ret >>

\* lines 530-533: TFile.Open gives a file, or nothing, or a zombie
PsfOpen ==
    /\ pc = "psf_open"
    /\ UNCHANGED unit
    /\ UNCHANGED output
    /\ \E opened \in BOOLEAN :
          IF opened
          THEN /\ root_file' = "open"
               /\ pc' = "psf_canvas"
               /\ ret' = ret
          ELSE /\ root_file' = root_file
               /\ pc' = "root_return"
               /\ ret' = "False"
    /\ UNCHANGED globals
    /\ UNCHANGED << figure_name, histograms, hist_idx, processed_names,
                    unique_histograms, yaml_content, var_idx, table >>

\* lines 536-548: the canvas and its histograms
PsfCollect ==
    /\ pc = "psf_canvas"
    /\ UNCHANGED unit
    /\ UNCHANGED output
    /\ \E canvas \in BOOLEAN,
          hists \in {l \in HistLists : Len(l) <= fs.canvas_max}
                       \cup fs.canvas_extra :
          IF canvas /\ hists # <<>>
          THEN /\ histograms' = hists
               /\ root_file' = root_file
               /\ pc' = "psf_table"
               /\ ret' = ret
          ELSE /\ histograms' = histograms
               /\ root_file' = "closed"
               /\ pc' = "root_return"
               /\ ret' = "False"
    /\ UNCHANGED globals
    /\ UNCHANGED << figure_name, hist_idx, processed_names,
                    unique_histograms, yaml_content, var_idx, table >>

\* the Table with the metadata and keywords of lines 553-563 / 756-766
NewTable(name, phrases) ==
    LET metadata == get_figure_metadata(name) IN
    [ Table(name) EXCEPT
        !.description = metadata.description,
        !.location = metadata.location,
        !.keywords = [ reactions |-> <<"P P --> X">>,
                       observables |-> <<"EFF">>,
                       phrases |-> phrases ] ]

WithImage_PathOnly(t, pdf_path, pdf_exists, probe, add_image_raises) ==
    IF pdf_exists THEN add_image(t, pdf_path) ELSE t

\* lines 567-576 / 770-780: the image is added when the pdf exists, the probe
\* succeeds and add_image does not raise
WithImage(t, pdf_path, pdf_exists, probe, add_image_raises) ==
    IF pdf_exists /\ check_imagemagick_available(probe) /\ ~add_image_raises
    THEN add_image(t, pdf_path)
    ELSE t

\* os.path.exists of the pdf of a figure in a directory
PdfExists(listing, name) == (name \o sDotPdf) \in listing

PsfPhrases ==
    <<"CMS", "LLP", "long-lived particles", "trigger", "efficiency",
      "displaced muons">>

\* lines 553-580: the Table, its image, the empty set and list
PsfTable ==
    /\ pc = "psf_table"
    /\ UNCHANGED unit
    /\ UNCHANGED output
    /\ table' = WithImage(NewTable(figure_name, PsfPhrases),
                          <<"data_Alejandro/">> \o figure_name \o <<".pdf">>,
                          PdfExists(fs.data_dir, figure_name), fs.convert,
                          fs.add_image_raises)
    /\ processed_names' = {}
    /\ unique_histograms' = <<>>
    /\ hist_idx' = 1
    /\ pc' = "psf_filter"
    /\ UNCHANGED globals
    /\ UNCHANGED << figure_name, root_file, histograms, yaml_content,
                    var_idx, ret >>

\* lines 582-599: one iteration of the filtering loop
PsfFilter ==
    /\ pc = "psf_filter"
    /\ UNCHANGED unit
    /\ UNCHANGED output
    /\ hist_idx <= Len(histograms)
    /\ LET acc == FilterStep([processed_names |-> processed_names,
                              unique_histograms |-> unique_histograms],
                             histograms[hist_idx])
       IN /\ processed_names' = acc.processed_names
          /\ unique_histograms' = acc.unique_histograms
    /\ hist_idx' = hist_idx + 1
    /\ UNCHANGED pc
    /\ UNCHANGED globals
    /\ UNCHANGED << figure_name, root_file, histograms, yaml_content,
                    var_idx, table, ret >>

\* the independent Variable of lines 603-617
XVariable(first_hist, name) ==
    LET first_hist_data == extract_histogram_data(first_hist)
        x_info == get_x_axis_info(GetXaxisTitle(first_hist), name)
    IN create_binned_variable(x_info[1], first_hist_data.x_low,
                              first_hist_data.x_high, x_info[2], TRUE)

PsfXVariable_LastRetained ==
    /\ pc = "psf_filter"
    /\ UNCHANGED unit
    /\ UNCHANGED output
    /\ hist_idx > Len(histograms)
    /\ table' = IF unique_histograms # <<>>
                THEN add_variable(table,
                        XVariable(unique_histograms[Len(unique_histograms)],
                                  figure_name))
                ELSE table
    /\ hist_idx' = 1
    /\ pc' = "psf_dependent"
    /\ UNCHANGED globals
    /\ UNCHANGED << figure_name, root_file, histograms, processed_names,
                    unique_histograms, yaml_content, var_idx, ret >>

\* lines 601-618: the x axis, after the filtering loop
PsfXVariable ==
    /\ pc = "psf_filter"
    /\ UNCHANGED unit
    /\ UNCHANGED output
    /\ hist_idx > Len(histograms)
    /\ table' = IF unique_histograms # <<>>
                THEN add_variable(table,
                                  XVariable(unique_histograms[1], figure_name))
                ELSE table
    /\ hist_idx' = 1
    /\ pc' = "psf_dependent"
    /\ UNCHANGED globals
    /\ UNCHANGED << figure_name, root_file, histograms, processed_names,
                    unique_histograms, yaml_content, var_idx, ret >>

YVariable_Unqualified(hist, name) ==
    LET hist_data == extract_histogram_data(hist)
        var_name == create_variable_name(GetName(hist), name)
    IN [create_dependent_variable(var_name, hist_data.y_values,
                                  PyList(hist_data.y_errors), <<>>,
                                  <<"Statistical uncertainty">>)
          EXCEPT !.qualifiers = <<>>]

\* the dependent Variable of lines 622-644
YVariable(hist, name) ==
    LET hist_data == extract_histogram_data(hist)
        var_name == create_variable_name(GetName(hist), name)
    IN create_dependent_variable(var_name, hist_data.y_values,
                                 PyList(hist_data.y_errors), <<>>,
                                 <<"Statistical uncertainty">>)

\* lines 621-649: one iteration of the loop over the retained histograms
PsfDependent ==
    /\ pc = "psf_dependent"
    /\ UNCHANGED unit
    /\ UNCHANGED output
    /\ hist_idx <= Len(unique_histograms)
    /\ table' = add_variable(table,
                             YVariable(unique_histograms[hist_idx], figure_name))
    /\ hist_idx' = hist_idx + 1
    /\ UNCHANGED pc
    /\ UNCHANGED globals
    /\ UNCHANGED << figure_name, root_file, histograms, processed_names,
                    unique_histograms, yaml_content, var_idx, ret >>

add_table_Front(submission_tables, t) == <<t>> \o submission_tables

\* Submission.add_table
add_table(submission_tables, t) == Append(submission_tables, t)

\* lines 651-656: the Table is added, the file closed, True returned
PsfFinish ==
    /\ pc = "psf_dependent"
    /\ UNCHANGED unit
    /\ UNCHANGED output
    /\ hist_idx > Len(unique_histograms)
    /\ tables' = add_table(tables, table)
    /\ root_file' = "closed"
    /\ ret' = "True"
    /\ pc' = "root_return"
    /\ UNCHANGED << fs, yaml_files, root_files, file_idx, successful_figures >>
    /\ UNCHANGED << figure_name, histograms, hist_idx, processed_names,
                    unique_histograms, yaml_content, var_idx, table >>

Tally_EveryCall(count, returned) == count + 1

\* lines 977-980: main counts the figure when the function returned True
Tally(count, returned) == IF returned = "True" THEN count + 1 ELSE count

RootLoopReturn ==
    /\ pc = "root_return"
    /\ UNCHANGED unit
    /\ UNCHANGED output
    /\ successful_figures' = Tally(successful_figures, ret)
    /\ file_idx' = file_idx + 1
    /\ pc' = "root_loop"
    /\ LocalsReset
    /\ UNCHANGED << fs, yaml_files, root_files, tables >>

\* line 982: the loop is over and the tally is printed
PrintSummary ==
    /\ pc = "root_loop"
    /\ UNCHANGED unit
    /\ file_idx > Len(root_files)
    /\ summary_printed' = TRUE
    /\ pc' = "summary"
    /\ UNCHANGED << writer_calls, write_error >>
    /\ UNCHANGED globals
    /\ UNCHANGED locals

\* process_single_figure has no try: an exception raised by a call of ROOT or
\* of hepdata_lib, while the canvas is read (line 543) or the Table is made
\* (line 556), leaves the function and main, and the run is over
PsfRaise ==
    /\ pc \in {"psf_canvas", "psf_table"}
    /\ UNCHANGED unit
    /\ UNCHANGED output
    /\ pc' = "aborted"
    /\ UNCHANGED globals
    /\ UNCHANGED locals

(***************************************************************************)
(* main, after the two loops.                                              *)
(***************************************************************************)
\* dict[key] = value
SetKey(mapping, key, value) ==
    [k \in DOMAIN mapping \cup {key} |-> IF k = key THEN value ELSE mapping[k]]

\* lines 999-1000
WithEnergies(ts) ==
    [i \in 1..Len(ts) |->
        [ts[i] EXCEPT !.keywords = SetKey(@, "cmenergies", <<13000, 13600>>)]]

\* lines 984-1000: the Tables of the last builders, then the keyword on every
\* Table; a builder may raise, nothing catches it and the run is over
MainEpilogue ==
    /\ pc = "summary"
    /\ UNCHANGED unit
    /\ UNCHANGED output
    /\ \E n \in 0..Len(StaticTablesAfter) :
          IF n = Len(StaticTablesAfter)
          THEN /\ tables' = WithEnergies(
                               tables \o StaticTables(StaticTablesAfter, n))
               /\ pc' = "write"
          ELSE /\ tables' = tables \o StaticTables(StaticTablesAfter, n)
               /\ pc' = "aborted"
    /\ UNCHANGED << fs, yaml_files, root_files, file_idx, successful_figures >>
    /\ UNCHANGED locals

mImageMagick == <<"I", "m", "a", "g", "e", "M", "a", "g", "i", "c", "k", " ", "n", "o", "t", " ", "f", "o", "u", "n", "d">>
mConvert == <<"c", "o", "n", "v", "e", "r", "t", " ", "f", "a", "i", "l", "e", "d">>
mNotExist == <<"a", ".", "p", "d", "f", " ", "d", "o", "e", "s", " ", "n", "o", "t", " ", "e", "x", "i", "s", "t">>
mDiskFull == <<"N", "o", " ", "s", "p", "a", "c", "e", " ", "l", "e", "f", "t">>
mUpperCase == <<"C", "o", "n", "v", "e", "r", "t", ":", " ", "i", "m", "a", "g", "e", "m", "a", "g", "i", "c", "k">>

\* what str(e) may be when submission.create_files raises
WriterMessages == {mImageMagick, mConvert, mNotExist, mDiskFull, mUpperCase}

LooksImageRelated_AnyCase(message) ==
    \/ Contains(Lower(sImageMagick), Lower(message))
    \/ Contains(Lower(sConvert), Lower(message))
    \/ Contains(Lower(sDoesNotExist), Lower(message))

\* line 1008
LooksImageRelated(message) ==
    \/ Contains(sImageMagick, message)
    \/ Contains(sConvert, message)
    \/ Contains(sDoesNotExist, message)

WithoutImages_FirstOnly(ts) ==
    [i \in 1..Len(ts) |->
        IF i = 1 THEN [ts[i] EXCEPT !.image_files = <<>>] ELSE ts[i]]

\* lines 1013-1015
WithoutImages(ts) == [i \in 1..Len(ts) |-> [ts[i] EXCEPT !.image_files = <<>>]]

\* lines 1003-1015 and 1023-1024: the first call of the writer
WriteFiles ==
    /\ pc = "write"
    /\ UNCHANGED unit
    /\ writer_calls' = writer_calls + 1
    /\ \E raised \in BOOLEAN, message \in WriterMessages :
          IF ~raised
          THEN /\ pc' = "done"
               /\ UNCHANGED << tables, write_error >>
          ELSE /\ write_error' = message
               /\ IF LooksImageRelated(message)
                  THEN /\ tables' = WithoutImages(tables)
                       /\ pc' = "write_retry"
                  ELSE /\ tables' = tables
                       /\ pc' = "aborted"
    /\ UNCHANGED summary_printed
    /\ UNCHANGED << fs, yaml_files, root_files, file_idx, successful_figures >>
    /\ UNCHANGED locals

\* lines 1017-1022: the second call of the writer
RetryWrite ==
    /\ pc = "write_retry"
    /\ UNCHANGED unit
    /\ writer_calls' = writer_calls + 1
    /\ \E raised \in BOOLEAN :
          pc' = IF raised THEN "aborted" ELSE "done"
    /\ UNCHANGED << summary_printed, write_error >>
    /\ UNCHANGED globals
    /\ UNCHANGED locals

(***************************************************************************)
(* process_existing_yaml_file(submission, yaml_file_path, figure_name).    *)
(***************************************************************************)
\* lines 959-963: main calls the function for the next record file
YamlLoopCall ==
    /\ pc = "yaml_loop"
    /\ UNCHANGED unit
    /\ UNCHANGED output
    /\ file_idx <= Len(yaml_files)
    /\ figure_name' = Replace(yaml_files[file_idx], sDotYaml, <<>>)
    /\ pc' = "pey_open"
    /\ UNCHANGED globals
    /\ UNCHANGED << root_file, histograms, hist_idx, processed_names,
                    unique_histograms, yaml_content, var_idx, table, ret >>

\* the loop over the record files is over
YamlLoopExit ==
    /\ pc = "yaml_loop"
    /\ UNCHANGED unit
    /\ UNCHANGED output
    /\ file_idx > Len(yaml_files)
    /\ pc' = "root_dir"
    /\ UNCHANGED globals
    /\ UNCHANGED locals

PeyPhrases ==
    <<"CMS", "LLP", "long-lived particles", "trigger", "efficiency",
      "displaced muons", "proper decay length">>

\* lines 746-780: the file is read into a mapping and the Table is made with
\* its image.  The function returns False when the file is no longer there,
\* and when an exception is raised: by yaml.safe_load, or by the first `in'
\* test when the file is empty and safe_load gives None.
PeyLoad ==
    /\ pc = "pey_open"
    /\ UNCHANGED unit
    /\ UNCHANGED output
    /\ \E outcome \in {"missing", "yaml_error", "none", "mapping"},
          record \in YamlRecords :
          IF outcome = "mapping"
          THEN /\ yaml_content' = record
               /\ table' = WithImage(
                     NewTable(figure_name, PeyPhrases),
                     <<"data_Alejandro/fromDisplacedDimuons/">>
                         \o figure_name \o <<".pdf">>,
                     PdfExists(fs.yaml_dir, figure_name), fs.convert,
                     fs.add_image_raises)
               /\ pc' = "pey_independent"
               /\ ret' = ret
          ELSE /\ yaml_content' = yaml_content
               /\ table' = table
               /\ pc' = "yaml_return"
               /\ ret' = "False"
    /\ var_idx' = 1
    /\ UNCHANGED globals
    /\ UNCHANGED << figure_name, root_file, histograms, hist_idx,
                    processed_names, unique_histograms >>

\* the list under a key of the record, empty when the key is absent
VarsOf(record, key) == Get(record, key, <<>>)

\* lines 783-793: one iteration of the loop over independent_variables;
\* a KeyError is caught at line 817 and False is returned
PeyIndependent ==
    /\ pc = "pey_independent"
    /\ UNCHANGED unit
    /\ UNCHANGED output
    /\ var_idx <= Len(VarsOf(yaml_content, "independent_variables"))
    /\ LET indep_var == yaml_content["independent_variables"][var_idx] IN
          IF IndepVarReadable(indep_var)
          THEN /\ table' = add_variable(table, IndepVarFromRecord(indep_var))
               /\ var_idx' = var_idx + 1
               /\ UNCHANGED << pc, ret >>
          ELSE /\ pc' = "yaml_return"
               /\ ret' = "False"
               /\ UNCHANGED << table, var_idx >>
    /\ UNCHANGED globals
    /\ UNCHANGED << figure_name, root_file, histograms, hist_idx,
                    processed_names, unique_histograms, yaml_content >>

\* line 796: the loop over independent_variables is over, or was not entered
PeyIndependentDone ==
    /\ pc = "pey_independent"
    /\ UNCHANGED unit
    /\ UNCHANGED output
    /\ var_idx > Len(VarsOf(yaml_content, "independent_variables"))
    /\ var_idx' = 1
    /\ pc' = "pey_dependent"
    /\ UNCHANGED globals
    /\ UNCHANGED << figure_name, root_file, histograms, hist_idx,
                    processed_names, unique_histograms, yaml_content,
                    table, ret >>

PeyDependent_EmitsPartial ==
    /\ pc = "pey_dependent"
    /\ UNCHANGED unit
    /\ UNCHANGED output
    /\ var_idx <= Len(VarsOf(yaml_content, "dependent_variables"))
    /\ LET dep_var == yaml_content["dependent_variables"][var_idx] IN
          IF DepVarReadable(dep_var)
          THEN /\ table' = add_variable(table, DepVarFromRecord(dep_var))
               /\ var_idx' = var_idx + 1
               /\ UNCHANGED << pc, ret, tables >>
          ELSE /\ pc' = "yaml_return"
               /\ ret' = "False"
               /\ tables' = add_table(tables, table)
               /\ UNCHANGED << table, var_idx >>
    /\ UNCHANGED << fs, yaml_files, root_files, file_idx, successful_figures >>
    /\ UNCHANGED << figure_name, root_file, histograms, hist_idx,
                    processed_names, unique_histograms, yaml_content >>

\* lines 796-811: one iteration of the loop over dependent_variables
PeyDependent ==
    /\ pc = "pey_dependent"
    /\ UNCHANGED unit
    /\ UNCHANGED output
    /\ var_idx <= Len(VarsOf(yaml_content, "dependent_variables"))
    /\ LET dep_var == yaml_content["dependent_variables"][var_idx] IN
          IF DepVarReadable(dep_var)
          THEN /\ table' = add_variable(table, DepVarFromRecord(dep_var))
               /\ var_idx' = var_idx + 1
               /\ UNCHANGED << pc, ret >>
          ELSE /\ pc' = "yaml_return"
               /\ ret' = "False"
               /\ UNCHANGED << table, var_idx >>
    /\ UNCHANGED globals
    /\ UNCHANGED << figure_name, root_file, histograms, hist_idx,
                    processed_names, unique_histograms, yaml_content >>

\* lines 813-815: the Table is added and True returned
PeyFinish ==
    /\ pc = "pey_dependent"
    /\ UNCHANGED unit
    /\ UNCHANGED output
    /\ var_idx > Len(VarsOf(yaml_content, "dependent_variables"))
    /\ tables' = add_table(tables, table)
    /\ ret' = "True"
    /\ pc' = "yaml_return"
    /\ UNCHANGED << fs, yaml_files, root_files, file_idx, successful_figures >>
    /\ UNCHANGED << figure_name, root_file, histograms, hist_idx,
                    processed_names, unique_histograms, yaml_content,
                    var_idx, table >>

\* lines 963-966: main counts the figure when the function returned True
YamlLoopReturn ==
    /\ pc = "yaml_return"
    /\ UNCHANGED unit
    /\ UNCHANGED output
    /\ successful_figures' = Tally(successful_figures, ret)
    /\ file_idx' = file_idx + 1
    /\ pc' = "yaml_loop"
    /\ LocalsReset
    /\ UNCHANGED << fs, yaml_files, root_files, tables >>

(***************************************************************************)
(* create_dependent_variable called on its own.                            *)
(***************************************************************************)
\* the arguments: the values and errors extract_histogram_data gives for a
\* histogram of the pool, or values with as many errors, with an empty list
\* of errors, or with None
DependentVariableCalls ==
    { [fn |-> "create_dependent_variable",
       y_values |-> extract_histogram_data(h).y_values,
       y_errors |-> PyList(extract_histogram_data(h).y_errors)] :
         h \in HistPool }
    \cup
    { [fn |-> "create_dependent_variable", y_values |-> v, y_errors |-> e] :
         v \in ListsUpTo({0, 5}, MaxPoints),
         e \in {PyNone} \cup {PyList(l) : l \in ListsUpTo({0, 1, 2}, MaxPoints)} }

CallCreateDependentVariable ==
    /\ pc = "call"
    /\ fn_call.fn = "create_dependent_variable"
    /\ fn_result = NoResult
    /\ fn_result' =
          [done |-> TRUE,
           value |-> create_dependent_variable(
                         <<"Efficiency">>, fn_call.y_values, fn_call.y_errors,
                         <<>>, <<"Statistical uncertainty">>)]
    /\ UNCHANGED << pc, fn_call >>
    /\ UNCHANGED output
    /\ UNCHANGED globals
    /\ UNCHANGED locals

(***************************************************************************)
(* The functions without state, each called on its own.                    *)
(***************************************************************************)
\* check_imagemagick_available() for every way subprocess.run can end
ProbeCalls ==
    { [fn |-> "check_imagemagick_available", outcome |-> o] :
        o \in RunOutcomes }

CallCheckImagemagick ==
    /\ pc = "call"
    /\ fn_call.fn = "check_imagemagick_available"
    /\ fn_result = NoResult
    /\ fn_result' =
          IF check_imagemagick_raises(fn_call.outcome)
          THEN [done |-> TRUE, raised |-> TRUE]
          ELSE [done |-> TRUE, raised |-> FALSE,
                value |-> check_imagemagick_available(fn_call.outcome)]
    /\ UNCHANGED << pc, fn_call >>
    /\ UNCHANGED output
    /\ UNCHANGED globals
    /\ UNCHANGED locals

\* the marks the rules of create_variable_name look for, in a fixed order
NameMarks ==
    << sMuonRun3HLTRun2, sDisplacedL3, sdTks, sL3VetoOR, sHData2022, s2023,
       s2022, sMuon, sJetMET, sBtoJPsi, sCOSMI, sRatio >>

\* the name of a histogram that holds the marks of the given positions
RECURSIVE NameWith(_, _)
NameWith(positions, from) ==
    IF from > Len(NameMarks) THEN <<>>
    ELSE (IF from \in positions THEN <<"_">> \o NameMarks[from] ELSE <<>>)
         \o NameWith(positions, from + 1)

\* the names with at most MaxMarks marks
MarkedNames ==
    { <<"h">> \o NameWith(positions, 1) :
        positions \in { P \in SUBSET (1..Len(NameMarks)) :
                          Cardinality(P) <= MaxMarks } }

\* create_variable_name for every marked name and every known figure, and
\* for a figure that is not known
VariableNameCalls ==
    { [fn |-> "create_variable_name", hist_name |-> n, figure_name |-> f] :
        n \in MarkedNames, f \in KnownFigures \cup {sFigure99} }

CallCreateVariableName ==
    /\ pc = "call"
    /\ fn_call.fn = "create_variable_name"
    /\ fn_result = NoResult
    /\ fn_result' =
          [done |-> TRUE,
           value |-> create_variable_name(fn_call.hist_name,
                                          fn_call.figure_name)]
    /\ UNCHANGED << pc, fn_call >>
    /\ UNCHANGED output
    /\ UNCHANGED globals
    /\ UNCHANGED locals

\* titles of an x axis: with one unit in brackets, with blanks around, with
\* two units, with a unit the function does not know, without unit, empty
AxisTitles ==
    { sPtGeV, <<" ", "d", "0", " ", "[", "c", "m", "]", " ">>, <<"m", "a", "s", "s">>, <<" ", "m", "a", "s", "s", " ">>, <<"[", "G", "e", "V", "]", " ", "p", "T", " ", "[", "G", "e", "V", "]">>, <<"x", " ", "[", "c", "m", "]", " ", "[", "G", "e", "V", "]">>, <<"E", " ", "[", "T", "e", "V", "]">>, <<"[", "[", "G", "e", "V", "]", "G", "e", "V", "]", " ", "p", "T">>,
      <<" ", " ">>, <<>> }

AxisInfoCalls ==
    { [fn |-> "get_x_axis_info", x_axis_title |-> t, figure_name |-> f] :
        t \in AxisTitles, f \in KnownFigures \cup {sFigure99} }

CallGetXAxisInfo ==
    /\ pc = "call"
    /\ fn_call.fn = "get_x_axis_info"
    /\ fn_result = NoResult
    /\ fn_result' =
          [done |-> TRUE,
           value |-> get_x_axis_info(fn_call.x_axis_title,
                                     fn_call.figure_name)]
    /\ UNCHANGED << pc, fn_call >>
    /\ UNCHANGED output
    /\ UNCHANGED globals
    /\ UNCHANGED locals

(***************************************************************************)
(* Specifications.                                                         *)
(***************************************************************************)
MainActions ==
    \/ MainPrologue
    \/ ListYamlFiles
    \/ SkipYamlDir
    \/ YamlLoopExit
    \/ ListRootFiles
    \/ PrintSummary
    \/ MainEpilogue
    \/ WriteFiles
    \/ RetryWrite

FigureActions ==
    \/ RootLoopCall
    \/ PsfOpen
    \/ PsfCollect
    \/ PsfRaise
    \/ PsfTable
    \/ PsfFilter
    \/ PsfXVariable
    \/ PsfDependent
    \/ PsfFinish
    \/ RootLoopReturn

YamlActions ==
    \/ YamlLoopCall
    \/ PeyLoad
    \/ PeyIndependent
    \/ PeyIndependentDone
    \/ PeyDependent
    \/ PeyFinish
    \/ YamlLoopReturn

\* the environments with the given directories and lists of histograms
Environments(yaml_dirs, data_dirs, converts, raises, canvas_max) ==
    { [ yaml_dir |-> y, data_dir |-> d, data_dir_exists |-> TRUE,
        convert |-> c, add_image_raises |-> r, canvas_max |-> canvas_max,
        canvas_extra |-> {} ] :
        y \in yaml_dirs, d \in data_dirs, c \in converts, r \in raises }

\* the environments where the directory data_Alejandro is not there
WithoutDataDir ==
    { [e EXCEPT !.data_dir_exists = FALSE] :
        e \in Environments({ {} }, { {} }, {"exit_zero"}, {FALSE}, RunHists) }

\* one record file, of a figure with metadata or without, and no ROOT file;
\* or no record file and two ROOT files, of a figure with metadata and of
\* one without; or no directory
Listings ==
    Environments({ {fFigure40Yaml, sFigure40 \o sDotPdf}, {fFigure99Yaml} },
                 { {fFigure99Pdf} }, ProbeOutcomes, BOOLEAN, RunHists)
    \cup
    Environments({ {} }, { {fFigure41aRoot, fFigure99Root, fFigure99Pdf} },
                 ProbeOutcomes, BOOLEAN, RunHists)
    \cup
    WithoutDataDir
    \cup
    Environments({ {} }, { {fFigure99Pdf} }, {"os_error"}, {FALSE}, RunHists)
    \cup
    Environments({ {} }, { {fFigure41aRootRoot} }, {"exit_zero"}, {FALSE},
                 RunHists)

Init == InitWith(Listings)

Next == MainActions \/ YamlActions \/ FigureActions

Spec == Init /\ [][Next]_vars

\* one ROOT file and no record file: process_single_figure on every list of
\* histograms
FigureListings ==
    { [e EXCEPT !.canvas_extra = ScenarioLists] :
        e \in Environments({ {} }, { {fFigure99Root, fFigure99Pdf} },
                           {"exit_zero", "not_found"}, {FALSE}, MaxHists) }

InitFigure == InitWith(FigureListings)

NextFigure == MainActions \/ FigureActions

SpecFigure == InitFigure /\ [][NextFigure]_vars

\* one record file and no ROOT file: process_existing_yaml_file on every record
YamlListings ==
    Environments({ {fFigure40Yaml, sFigure40 \o sDotPdf} }, { {fFigure99Pdf} },
                 {"exit_zero", "not_found"}, {FALSE}, MaxHists)

InitYaml == InitWith(YamlListings)

NextYaml == MainActions \/ YamlActions

SpecYaml == InitYaml /\ [][NextYaml]_vars

\* create_dependent_variable on its own, on every list of values and errors
InitVariable ==
    /\ pc = "call"
    /\ fs \in FigureListings
    /\ yaml_files = <<>>
    /\ root_files = <<>>
    /\ file_idx = 1
    /\ tables = <<>>
    /\ successful_figures = 0
    /\ LocalsIdle
    /\ summary_printed = FALSE
    /\ writer_calls = 0
    /\ write_error = <<>>
    /\ fn_call \in { c \in DependentVariableCalls :
                       \/ c.y_errors.is_none
                       \/ c.y_errors.items = <<>>
                       \/ Len(c.y_errors.items) = Len(c.y_values) }
    /\ fn_result = NoResult

NextVariable == CallCreateDependentVariable

SpecVariable == InitVariable /\ [][NextVariable]_vars

\* the functions without state, each on its own, on every call of the pools
InitCalls ==
    /\ pc = "call"
    /\ fs \in FigureListings
    /\ yaml_files = <<>>
    /\ root_files = <<>>
    /\ file_idx = 1
    /\ tables = <<>>
    /\ successful_figures = 0
    /\ LocalsIdle
    /\ summary_printed = FALSE
    /\ writer_calls = 0
    /\ write_error = <<>>
    /\ fn_call \in ProbeCalls \cup VariableNameCalls \cup AxisInfoCalls
    /\ fn_result = NoResult

NextCalls ==
    \/ CallCheckImagemagick
    \/ CallCreateVariableName
    \/ CallGetXAxisInfo

SpecCalls == InitCalls /\ [][NextCalls]_vars

(***************************************************************************)
(* Properties of the filtering loop.                                       *)
(***************************************************************************)
\* a histogram of a ratio panel: "ratio" somewhere in the name, in any case,
\* or "Data/MC" somewhere in the title of the y axis
RatioPanel(hist) ==
    \/ \E i \in 1..Len(hist.name) :
          /\ i + 4 <= Len(hist.name)
          /\ Lower(SubSeq(hist.name, i, i + 4)) = sRatio
    \/ \E i \in 1..Len(hist.y_title) :
          /\ i + 6 <= Len(hist.y_title)
          /\ SubSeq(hist.y_title, i, i + 6) = sDataMC

\* the filtering loop has looked at the first FilteredCount histograms
InFigure ==
    pc \in {"psf_filter", "psf_dependent", "root_return"} /\ histograms # <<>>

FilteredCount == IF pc = "psf_filter" THEN hist_idx - 1 ELSE Len(histograms)

\* the filtering loop is over and the function has not returned to main
FilterDone == InFigure /\ FilteredCount = Len(histograms)

\* process_single_figure has returned True and main has not yet resumed
FigureReturnedTrue == pc = "root_return" /\ ret = "True"

\* the Table process_single_figure added last
LastTable == tables[Len(tables)]

\* C1: a histogram whose name contains "ratio" in any case, or whose y title
\* contains "Data/MC", is never retained, wherever it stands in the list and
\* whatever was retained before it; it supplies neither the x axis nor a
\* dependent variable of the Table under construction or of the Table added.
C1_RatioNeverRetained ==
    InFigure =>
      /\ \A i \in 1..Len(unique_histograms) : ~RatioPanel(unique_histograms[i])
      /\ \A k \in 1..Len(histograms) :
            RatioPanel(histograms[k]) =>
              /\ \A j \in 1..Len(table.variables) :
                    /\ table.variables[j] # XVariable(histograms[k], figure_name)
                    /\ table.variables[j] # YVariable(histograms[k], figure_name)
              /\ FigureReturnedTrue =>
                    \A j \in 1..Len(LastTable.variables) :
                       /\ LastTable.variables[j]
                             # XVariable(histograms[k], figure_name)
                       /\ LastTable.variables[j]
                             # YVariable(histograms[k], figure_name)

\* a Table was added for a list in which a ratio histogram follows a
\* retained one and another ratio histogram comes first
C1_Witness ==
    /\ FigureReturnedTrue
    /\ Len(histograms) >= 3
    /\ RatioPanel(histograms[1])
    /\ ~RatioPanel(histograms[2])
    /\ RatioPanel(histograms[3])
    /\ Len(LastTable.variables) = 2

\* position i of the list is the first one, among the histograms that are
\* not of a ratio panel, with its name once "_copy" is taken out
FirstSeen(hists, i) ==
    /\ ~RatioPanel(hists[i])
    /\ \A j \in 1..(i - 1) :
          \/ RatioPanel(hists[j])
          \/ base_name(hists[j].name) # base_name(hists[i].name)

\* the histograms at the first-seen positions among the first n, in the
\* order of the list
RECURSIVE FirstSeenUpTo(_, _)
FirstSeenUpTo(hists, n) ==
    IF n = 0 THEN <<>>
    ELSE IF FirstSeen(hists, n)
         THEN Append(FirstSeenUpTo(hists, n - 1), hists[n])
         ELSE FirstSeenUpTo(hists, n - 1)

\* C2: a histogram that is not of a ratio panel is left out exactly when its
\* name without "_copy" is that of a histogram retained earlier in the list;
\* the first seen of each such name is retained, in the order of the list.
C2_FirstSeenRetained ==
    InFigure => unique_histograms = FirstSeenUpTo(histograms, FilteredCount)

\* a duplicate was left out and the retained list is not in name order
C2_Witness ==
    /\ FilterDone
    /\ Len(unique_histograms) = 2
    /\ StrLess(unique_histograms[2].name, unique_histograms[1].name)
    /\ \E i \in 1..Len(histograms) :
          ~RatioPanel(histograms[i]) /\ ~FirstSeen(histograms, i)

\* the list with the element at position p taken out and put at position q
Move(s, p, q) ==
    LET rest == SubSeq(s, 1, p - 1) \o SubSeq(s, p + 1, Len(s))
    IN SubSeq(rest, 1, q - 1) \o <<s[p]>> \o SubSeq(rest, q, Len(rest))

\* the position of the retained histogram that position p duplicates
Keeper(hists, p) ==
    CHOOSE k \in 1..(p - 1) :
        /\ FirstSeen(hists, k)
        /\ base_name(hists[k].name) = base_name(hists[p].name)

\* C3 as stated: moving any histogram that is not retained (of a ratio panel,
\* or a duplicate) to any other position leaves the retained list unchanged.
C3_Original ==
    FilterDone =>
      \A p, q \in 1..Len(histograms) :
         ~FirstSeen(histograms, p) =>
            FilterHistograms(Move(histograms, p, q)) = unique_histograms

\* C3: moving a histogram of a ratio panel to any position, or a duplicate to
\* any position behind the retained histogram it duplicates, leaves the
\* retained list unchanged: same histograms, same order.
C3_MoveNonRetained ==
    FilterDone =>
      \A p, q \in 1..Len(histograms) :
         \/ FirstSeen(histograms, p)
         \/ ~RatioPanel(histograms[p]) /\ q <= Keeper(histograms, p)
         \/ FilterHistograms(Move(histograms, p, q)) = unique_histograms

\* a list where a duplicate can move behind its retained histogram and a
\* ratio histogram can move to the front
C3_Witness ==
    /\ FilterDone
    /\ Len(histograms) = 3
    /\ FirstSeen(histograms, 1)
    /\ ~RatioPanel(histograms[2]) /\ ~FirstSeen(histograms, 2)
    /\ RatioPanel(histograms[3])
    /\ unique_histograms = <<histograms[1]>>

\* C4: the filtering loop on a list followed by itself retains what it
\* retains on the list: same histograms, same order.
C4_Idempotent ==
    FilterDone => FilterHistograms(histograms \o histograms) = unique_histograms

\* a list with two retained histograms, of which one is named with "_copy"
C4_Witness ==
    /\ FilterDone
    /\ Len(unique_histograms) = 2
    /\ \E i \in 1..2 : Contains(sCopy, unique_histograms[i].name)

(***************************************************************************)
(* Properties of the Tables.                                               *)
(***************************************************************************)
\* the positions in submission.tables of the Tables the two loops added
LoopTables == {n \in 1..Len(tables) : "variables" \in DOMAIN tables[n]}

\* C5 as stated: in every Table the two loops added, every dependent Variable
\* has as many values as the independent Variable, also when the retained
\* histograms of a figure have different numbers of bins.
C5_Original ==
    \A n \in LoopTables :
       \A i, j \in 1..Len(tables[n].variables) :
          (tables[n].variables[i].is_independent
             /\ ~tables[n].variables[j].is_independent)
          => Len(tables[n].variables[j].values)
                = Len(tables[n].variables[i].values)

\* the errors a histogram declares, bin by bin
DeclaredErrors(hist) == [i \in 1..Len(hist.bins) |-> hist.bins[i].error]

AllZero(errors) == \A i \in 1..Len(errors) : errors[i] = 0

\* C6 as stated: a retained histogram whose errors are all zero gives a
\* dependent Variable with one Uncertainty, whose values are all zero.
C6_Original ==
    FigureReturnedTrue =>
      \A j \in 1..Len(unique_histograms) :
         LET errors == DeclaredErrors(unique_histograms[j])
             var == LastTable.variables[j + 1]
         IN (errors # <<>> /\ AllZero(errors)) =>
               /\ Len(var.uncertainties) = 1
               /\ var.uncertainties[1].values = errors

\* C7: with no error values (an empty list, or None) the Variable that
\* create_dependent_variable returns has no Uncertainty; it has at most one,
\* and the values of that one are the errors given, one for each value.
C7_NoFabricatedUncertainty ==
    fn_result.done =>
      LET var == fn_result.value
          errors == fn_call.y_errors
      IN /\ (errors.is_none \/ errors.items = <<>>) => var.uncertainties = <<>>
         /\ Len(var.uncertainties) <= 1
         /\ \A u \in 1..Len(var.uncertainties) :
               /\ ~errors.is_none
               /\ var.uncertainties[u].values = errors.items
               /\ Len(var.uncertainties[u].values) = Len(var.values)

\* the function returned for two values and no list of errors
C7_Witness ==
    /\ fn_result.done
    /\ fn_call.y_errors.is_none
    /\ Len(fn_call.y_values) = 2
    /\ fn_result.value.values = fn_call.y_values

(***************************************************************************)
(* Properties of process_existing_yaml_file.                               *)
(***************************************************************************)
\* process_existing_yaml_file has returned and main has not yet resumed
YamlReturned == pc = "yaml_return"

\* a record of which every variable can be read
Canonical(record) ==
    /\ \A i \in 1..Len(VarsOf(record, "independent_variables")) :
          IndepVarReadable(record["independent_variables"][i])
    /\ \A i \in 1..Len(VarsOf(record, "dependent_variables")) :
          DepVarReadable(record["dependent_variables"][i])

\* the variables of a Table that are independent, or that are not
VariablesOfKind(t, independent) ==
    SelectSeq(t.variables, LAMBDA v : v.is_independent = independent)

\* no Table of the figure is in the Submission
NoTableOfFigure == \A n \in 1..Len(tables) : tables[n].name # figure_name

\* C8 as stated: for a record with k independent and m dependent variables
\* the function adds a Table with exactly 1 independent and exactly m dependent
\* variables, in the order of the record; with k = 0 it adds no Table and
\* returns False.
C8_Original ==
    (YamlReturned /\ DOMAIN yaml_content # {} /\ Canonical(yaml_content)) =>
      LET k == Len(VarsOf(yaml_content, "independent_variables"))
          deps == VarsOf(yaml_content, "dependent_variables")
      IN IF k = 0
         THEN ret = "False" /\ NoTableOfFigure
         ELSE /\ ret = "True"
              /\ LastTable.name = figure_name
              /\ Len(VariablesOfKind(LastTable, TRUE)) = 1
              /\ Len(VariablesOfKind(LastTable, FALSE)) = Len(deps)
              /\ \A j \in 1..Len(deps) :
                    VariablesOfKind(LastTable, FALSE)[j].name
                       = deps[j].header.name

\* C9 as stated: the Variable emitted for a dependent variable of the record
\* has every qualifier of the record, with name, value and unit, and every
\* error attached to a value of the record.
C9_Original ==
    (YamlReturned /\ ret = "True") =>
      LET deps == VarsOf(yaml_content, "dependent_variables")
          out == VariablesOfKind(LastTable, FALSE)
      IN \A j \in 1..Len(deps) :
            /\ \A q \in 1..Len(Get(deps[j], "qualifiers", <<>>)) :
                  \E o \in 1..Len(out[j].qualifiers) :
                     /\ out[j].qualifiers[o].name = deps[j].qualifiers[q].name
                     /\ out[j].qualifiers[o].value = deps[j].qualifiers[q].value
                     /\ out[j].qualifiers[o].units
                           = Get(deps[j].qualifiers[q], "units", <<>>)
            /\ \A i \in 1..Len(deps[j].values) :
                  \A e \in 1..Len(Get(deps[j].values[i], "errors", <<>>)) :
                     \E u \in 1..Len(out[j].uncertainties) :
                        /\ Len(out[j].uncertainties[u].values) >= i
                        /\ out[j].uncertainties[u].values[i]
                              = deps[j].values[i].errors[e].symerror

(***************************************************************************)
(* Properties of the returns of process_single_figure.                     *)
(***************************************************************************)
\* C10 as stated: when the canvas holds histograms and none is retained, the
\* function adds no Table and returns False, and main does not count the
\* figure.
C10_Original ==
    [][(pc = "root_return" /\ histograms # <<>> /\ unique_histograms = <<>>)
         => /\ ret = "False"
            /\ NoTableOfFigure
            /\ successful_figures' = successful_figures]_vars

(***************************************************************************)
(* Properties of the failures of a figure and of the run.                  *)
(***************************************************************************)
\* one of the two functions has returned and main has not yet resumed
Returned == pc \in {"yaml_return", "root_return"}

\* the figure has no entry in the table of get_figure_metadata
UnknownFigure == figure_name \notin KnownFigures

\* C11 as stated: for a figure without an entry in the metadata table the
\* function adds no Table and returns False.
C11_Original ==
    (Returned /\ UnknownFigure) => (ret = "False" /\ NoTableOfFigure)

\* C11: a figure without an entry in the metadata table is not a failure; when
\* the function returns True for it, the Table added last is the Table of the
\* figure with the placeholder description and location that embed the name
\* of the figure, main counts the figure and goes on with the next file.
C11_PlaceholderTable ==
    [][(Returned /\ UnknownFigure /\ ret = "True")
         => /\ LastTable.name = figure_name
            /\ LastTable.description
                  = <<"PLACEHOLDER: Description for ">> \o figure_name
            /\ LastTable.location
                  = <<"PLACEHOLDER: Location for ">> \o figure_name
            /\ successful_figures' = successful_figures + 1
            /\ file_idx' = file_idx + 1
            /\ pc' \in {"yaml_loop", "root_loop"}]_vars

\* process_single_figure has returned True for a figure without an entry,
\* after a figure with an entry
C11_Witness ==
    /\ pc = "root_return"
    /\ ret = "True"
    /\ figure_name = sFigure99
    /\ successful_figures = 1
    /\ LastTable.name = sFigure99
    /\ LastTable.description = <<"PLACEHOLDER: Description for ">> \o sFigure99

\* process_single_figure is between its first and its last line
FigureRunning ==
    pc \in {"psf_open", "psf_canvas", "psf_table", "psf_filter", "psf_dependent"}

\* C12 as stated: the ROOT file process_single_figure opened is closed on
\* every way out of the function, an exception included; outside the function
\* no ROOT file is open.
C12_Original == root_file = "open" => FigureRunning

\* process_existing_yaml_file is between its first and its last line
YamlRunning == pc \in {"pey_open", "pey_independent", "pey_dependent"}

\* C13 as stated: no exception leaves process_single_figure or
\* process_existing_yaml_file; a step taken inside one of them stays inside it
\* or returns to main with a result, and never ends the run.
C13_Original ==
    [][(FigureRunning \/ YamlRunning)
         => /\ pc' # "aborted"
            /\ pc' \in {"yaml_return", "root_return"} =>
                  ret' \in {"True", "False"}]_vars

\* C14: a step inside process_single_figure or process_existing_yaml_file
\* changes the list of Tables of the Submission only when it is the step
\* that returns True; on every step of a call that returns False, the return
\* included, the list of Tables is what it was when the call began.
C14_NoPartialTable ==
    [][((FigureRunning \/ YamlRunning) /\ ret' # "True")
         => tables' = tables]_vars

\* process_existing_yaml_file has returned False with a Table it had begun:
\* the Table has variables and the Submission has only the Tables main made
C14_Witness ==
    /\ pc = "yaml_return"
    /\ ret = "False"
    /\ table # NoTable
    /\ table.variables # <<>>
    /\ tables = StaticTables(StaticTablesBefore, Len(StaticTablesBefore))

(***************************************************************************)
(* Properties of the writer.                                               *)
(***************************************************************************)
\* the message of the exception names ImageMagick, convert or a file that
\* does not exist
ImageRelated(message) ==
    \E marker \in {sImageMagick, sConvert, sDoesNotExist} :
       \E i \in 1..Len(message) :
          /\ i + Len(marker) - 1 <= Len(message)
          /\ SubSeq(message, i, i + Len(marker) - 1) = marker

\* the first call of the writer raises an exception with the message
FirstWriteFails(message) ==
    pc = "write" /\ write_error' = message /\ pc' # "done"

\* C15: when the first call of the writer fails with an image-related message,
\* main removes the images of every Table, leaves the Tables otherwise as they
\* are and calls the writer a second time; the second call ends the run, with
\* or without an error; the writer is never called a third time.
C15_RetryOnce ==
    [][/\ \A message \in WriterMessages :
             (FirstWriteFails(message) /\ ImageRelated(message)) =>
                /\ Len(tables') = Len(tables)
                /\ \A n \in 1..Len(tables) :
                      tables'[n] = [tables[n] EXCEPT !.image_files = <<>>]
                /\ writer_calls' = 1
                /\ pc' = "write_retry"
       /\ pc = "write_retry" =>
             /\ writer_calls' = 2
             /\ tables' = tables
             /\ pc' \in {"done", "aborted"}
       /\ writer_calls' <= 2]_vars

\* the second call of the writer has failed, after a first failure with an
\* image-related message, and no Table has an image
C15_Witness ==
    /\ pc = "aborted"
    /\ writer_calls = 2
    /\ ImageRelated(write_error)
    /\ Len(tables) = Len(StaticTablesBefore) + 1 + Len(StaticTablesAfter)
    /\ \A n \in 1..Len(tables) : tables[n].image_files = <<>>

C17_Original == pc = "aborted" => (writer_calls >= 1 /\ write_error # <<>>)

\* C18 as stated: every run of main prints the count of the figures that
\* succeeded; a run that is over has printed it.
C18_Original == pc \in {"aborted", "done"} => summary_printed

(***************************************************************************)
(* Properties of the images.                                               *)
(***************************************************************************)
\* the pdf of the figure of a Table is in the directory of the record files
\* or in the directory of the ROOT files
PdfOnDisk(name) ==
    \/ (name \o sDotPdf) \in fs.yaml_dir
    \/ (name \o sDotPdf) \in fs.data_dir

\* C19 as stated: a Table of the Submission has an image only if `convert
\* -version' ran and exited with 0 and, for a Table of a figure of the two
\* loops, the pdf of the figure was on disk.
C19_Original ==
    \A n \in 1..Len(tables) :
       tables[n].image_files # <<>> =>
          /\ fs.convert = "exit_zero"
          /\ n \in LoopTables => PdfOnDisk(tables[n].name)

\* the directory where the function that is running, or has returned, looks
\* for the pdf of the figure
PdfDirectory ==
    IF pc \in {"pey_open", "pey_independent", "pey_dependent", "yaml_return"}
    THEN fs.yaml_dir
    ELSE fs.data_dir

\* the pdf of the figure is not there, or `convert -version' did not exit
\* with 0, or add_image raises
NoImageCase ==
    \/ (figure_name \o sDotPdf) \notin PdfDirectory
    \/ fs.convert # "exit_zero"
    \/ fs.add_image_raises

\* C20: in the three cases where no image can be attached, the step of
\* process_single_figure or process_existing_yaml_file that makes the Table
\* goes on with a Table without image, and when the function returns True the
\* Table added last is the Table of the figure, without image, and main counts
\* the figure.
C20_TableWithoutImage ==
    [][NoImageCase =>
         /\ (pc = "psf_table" /\ pc' # "aborted") =>
               (pc' = "psf_filter" /\ table'.image_files = <<>>)
         /\ (pc = "pey_open" /\ table' # NoTable) =>
               (pc' = "pey_independent" /\ table'.image_files = <<>>)
         /\ (Returned /\ ret = "True") =>
               /\ LastTable.name = figure_name
               /\ LastTable.image_files = <<>>
               /\ successful_figures' = successful_figures + 1]_vars

\* process_single_figure has returned True for a figure whose pdf is there,
\* while `convert -version' timed out: the Table added has no image
C20_Witness ==
    /\ pc = "root_return"
    /\ ret = "True"
    /\ figure_name = sFigure99
    /\ (sFigure99 \o sDotPdf) \in fs.data_dir
    /\ fs.convert = "timeout"
    /\ ~fs.add_image_raises
    /\ LastTable.name = sFigure99
    /\ LastTable.image_files = <<>>

(***************************************************************************)
(* Properties of the functions without state.                              *)
(***************************************************************************)
\* the function named has been called and is over
Called(fn) == fn_call.fn = fn /\ fn_result.done

\* C21: check_imagemagick_available returns True only when `convert -version'
\* exits with 0; when it exits with another status, when convert is not
\* there and when the 5 seconds are over, the function returns False and
\* raises nothing.
C21_ProbeNeverFatal ==
    Called("check_imagemagick_available") =>
      /\ fn_call.outcome \in {"exit_nonzero", "not_found", "timeout"} =>
            (~fn_result.raised /\ fn_result.value = FALSE)
      /\ (~fn_result.raised /\ fn_result.value = TRUE) =>
            fn_call.outcome = "exit_zero"
      /\ fn_call.outcome = "exit_zero" =>
            (~fn_result.raised /\ fn_result.value = TRUE)

\* the function has returned False for a status other than 0
C21_Witness ==
    /\ Called("check_imagemagick_available")
    /\ fn_call.outcome = "exit_nonzero"
    /\ ~fn_result.raised
    /\ fn_result.value = FALSE

\* the mark stands somewhere in the name
Has(mark, name) ==
    \E i \in 1..Len(name) :
       /\ i + Len(mark) - 1 <= Len(name)
       /\ SubSeq(name, i, i + Len(mark) - 1) = mark

\* the rules of a figure, in their order: when the rule matches, the name
FigureRules(figure, n) ==
    IF figure = sFigure42c
    THEN << << Has(sMuonRun3HLTRun2, n), <<"Run 2 (2018) observed events">> >>,
            << Has(sDisplacedL3, n) /\ ~Has(sdTks, n),
               <<"Run 3 (2022, L3) observed events">> >>,
            << Has(sdTks, n), <<"Run 3 (2022, L3 dTks) observed events">> >> >>
    ELSE IF figure = sFigure43b
    THEN << << Has(sMuonRun3HLTRun2, n), <<"Run 2 (2018) observed events">> >>,
            << Has(sL3VetoOR, n), <<"Run 3 (2022, L2) observed events">> >> >>
    ELSE IF figure = sFigure42a
    THEN << << Has(sHData2022, n),
               <<"Run 3 (2022, L3) trigger efficiency - 2022 data">> >>,
            << Has(s2023, n),
               <<"Run 3 (2022, L3) trigger efficiency - 2023 data">> >> >>
    ELSE <<>>

\* the rules of every figure, in their order
GenericRules(n) ==
    << << Has(sdTks, n), <<"Run 3 (2022, L3 dTks) trigger efficiency">> >>,
       << Has(sDisplacedL3, n) /\ Has(sMuon, n),
          <<"Run 3 (2022, L3) trigger efficiency">> >>,
       << Has(sDisplacedL3, n) /\ Has(sJetMET, n) /\ Has(s2022, n),
          <<"Run 3 (2022, L3) trigger efficiency - 2022 data">> >>,
       << Has(sDisplacedL3, n) /\ Has(sJetMET, n) /\ Has(s2023, n),
          <<"Run 3 (2022, L3) trigger efficiency - 2023 data">> >>,
       << Has(sDisplacedL3, n) /\ Has(sJetMET, n),
          <<"Run 3 (2022, L3) trigger efficiency">> >>,
       << Has(sBtoJPsi, n),
          <<"Run 3 (2022, L3) trigger efficiency - simulation">> >>,
       << Has(sCOSMI, n) /\ Has(s2022, n),
          <<"Run 3 (2022, L2) trigger efficiency - 2022 data">> >>,
       << Has(sCOSMI, n) /\ Has(s2023, n),
          <<"Run 3 (2022, L2) trigger efficiency - 2023 data">> >>,
       << Has(sCOSMI, n), <<"Run 3 (2022, L2) trigger efficiency">> >>,
       << Has(sRatio, n), <<"Data/MC ratio">> >> >>

\* the names of the rules that match, in the order of the rules
Matching(rules) ==
    LET matches == SelectSeq(rules, LAMBDA rule : rule[1])
    IN [i \in 1..Len(matches) |-> matches[i][2]]

\* the name of a series whose identifier matches no rule
Placeholder(name) == <<"Efficiency (">> \o name \o <<")">>

\* the name of the first rule that matches: of the figure, else generic
FirstMatch(figure, n) ==
    LET specific == Matching(FigureRules(figure, n))
        generic == Matching(GenericRules(n))
    IN IF specific # <<>> THEN specific[1]
       ELSE IF generic # <<>> THEN generic[1]
       ELSE Placeholder(n)

\* C22: create_variable_name gives a name for every figure and identifier:
\* the name of the first rule of the figure that matches; when the figure has
\* no rule that matches, the name of the first generic rule that matches;
\* when no rule matches, "Efficiency (<identifier>)".
C22_FirstMatchWins ==
    Called("create_variable_name") =>
      /\ fn_result.value # <<>>
      /\ fn_result.value = FirstMatch(fn_call.figure_name, fn_call.hist_name)

\* the function was called for Figure42c and a name with DisplacedL3 and dTks:
\* a rule of the figure and an earlier generic rule match, and the rule of
\* the figure wins
C22_Witness ==
    /\ Called("create_variable_name")
    /\ fn_call.figure_name = sFigure42c
    /\ Has(sdTks, fn_call.hist_name)
    /\ Has(sDisplacedL3, fn_call.hist_name)
    /\ Has(sMuon, fn_call.hist_name)
    /\ fn_result.value = <<"Run 3 (2022, L3 dTks) observed events">>

\* the name and the unit of the x axis of the figures that have their own
AxisOverrides ==
    [f \in {sFigure41a, sFigure41b, sFigure41c, sFigure42a, sFigure42b,
            sFigure42c, sFigure43a, sFigure43b} |->
        IF f = sFigure41a THEN << <<"min($p_T$)">>, <<"GeV">> >>
        ELSE IF f = sFigure41b THEN << <<"max($p_T$)">>, <<"GeV">> >>
        ELSE IF f \in {sFigure42c, sFigure43b}
             THEN << <<"$m_{\\mu\\mu}$">>, <<"GeV">> >>
        ELSE << <<"min($d_0$)">>, <<"cm">> >>]

\* C23 as stated: the figures with an override get it; otherwise a title
\* with a unit in brackets gives that unit and a name without the bracketed
\* unit; otherwise the result is the title as it is, with an empty unit.
C23_Original ==
    Called("get_x_axis_info") =>
      LET t == fn_call.x_axis_title
          brackets == { p \in (1..Len(t)) \X (1..Len(t)) :
                          p[1] < p[2] /\ t[p[1]] = "[" /\ t[p[2]] = "]" }
      IN IF fn_call.figure_name \in DOMAIN AxisOverrides
         THEN fn_result.value = AxisOverrides[fn_call.figure_name]
         ELSE IF brackets # {}
         THEN \E p \in brackets :
                 /\ fn_result.value[2] = SubSeq(t, p[1] + 1, p[2] - 1)
                 /\ ~Has(SubSeq(t, p[1], p[2]), fn_result.value[1])
         ELSE fn_result.value = << t, <<>> >>

\* the text without the blanks at its two ends
Trim(s) ==
    LET inked == { i \in 1..Len(s) : s[i] # " " }
    IN IF inked = {} THEN <<>>
       ELSE SubSeq(s, CHOOSE i \in inked : \A j \in inked : i <= j,
                      CHOOSE i \in inked : \A j \in inked : i >= j)

\* the text without the occurrences of the token, found from left to right
RECURSIVE Cut(_, _)
Cut(s, token) ==
    IF ~Has(token, s) THEN s
    ELSE LET first == CHOOSE i \in 1..Len(s) :
                         /\ SubSeq(s, i, i + Len(token) - 1) = token
                         /\ \A j \in 1..(i - 1) :
                               SubSeq(s, j, j + Len(token) - 1) # token
         IN SubSeq(s, 1, first - 1)
            \o Cut(SubSeq(s, first + Len(token), Len(s)), token)

\* C23: the figures with an override get it, whatever the title.  Otherwise
\* the title is taken without the blanks at its ends: with "[GeV]" in it, the
\* name is the title without every "[GeV]" and without blanks at the ends and
\* the unit is GeV; else with "[cm]" in it, the same with cm; else the unit is
\* empty and the name is the title without the blanks at its ends, or
\* "Variable" when nothing is left.
C23_AxisInfo ==
    Called("get_x_axis_info") =>
      LET t == Trim(fn_call.x_axis_title)
      IN fn_result.value =
            IF fn_call.figure_name \in DOMAIN AxisOverrides
            THEN AxisOverrides[fn_call.figure_name]
            ELSE IF Has(sGeVBr, t) THEN << Trim(Cut(t, sGeVBr)), <<"GeV">> >>
            ELSE IF Has(sCmBr, t) THEN << Trim(Cut(t, sCmBr)), <<"cm">> >>
            ELSE IF t = <<>> THEN << <<"Variable">>, <<>> >>
            ELSE << t, <<>> >>

\* the function was called for a figure without override and a title with
\* blanks at its ends and no unit
C23_Witness ==
    /\ Called("get_x_axis_info")
    /\ fn_call.figure_name = sFigure99
    /\ fn_call.x_axis_title = <<" ", "m", "a", "s", "s", " ">>
    /\ fn_result.value = << <<"m", "a", "s", "s">>, <<>> >>

(***************************************************************************)
(* Properties of the Submission over the run.                              *)
(***************************************************************************)
\* a Table without what main changes in place: its images and its keywords
Core(t) == [t EXCEPT !.image_files = <<>>, !.keywords = <<>>]

\* main is in one of its two loops, or in a function one of them called
InLoops ==
    \/ pc \in {"yaml_loop", "root_loop", "yaml_return", "root_return"}
    \/ FigureRunning
    \/ YamlRunning

\* C24: every step of main leaves the Tables of the Submission where they
\* are, each the same Table as before, and adds Tables only at the end; a
\* step of the two loops adds at most one; once the Submission has been
\* handed to the writer the list of Tables has the same Tables in the same
\* places.
C24_AppendOnly ==
    [][/\ Len(tables') >= Len(tables)
       /\ \A n \in 1..Len(tables) : Core(tables'[n]) = Core(tables[n])
       /\ InLoops => Len(tables') <= Len(tables) + 1
       /\ pc \in {"write", "write_retry"} => Len(tables') = Len(tables)]_vars

\* the run is over after two calls of the writer, with the Tables of the
\* first builders, of two ROOT files and of the last builders
C24_Witness ==
    /\ pc = "done"
    /\ writer_calls = 2
    /\ Len(tables) = Len(StaticTablesBefore) + 2 + Len(StaticTablesAfter)
    /\ tables[Len(StaticTablesBefore) + 1].name = sFigure41a
    /\ tables[Len(StaticTablesBefore) + 2].name = sFigure99

\* the names of the Tables the two loops have added, in their order
LoopNames ==
    LET added == SelectSeq(tables, LAMBDA t : "variables" \in DOMAIN t)
    IN [i \in 1..Len(added) |-> added[i].name]

\* the order of file names: the text a stands before the text b
Precedes(a, b) ==
    \/ /\ Len(a) < Len(b)
       /\ SubSeq(b, 1, Len(a)) = a
    \/ \E i \in 1..Len(a) :
          /\ i <= Len(b)
          /\ SubSeq(a, 1, i - 1) = SubSeq(b, 1, i - 1)
          /\ Ord(a[i]) < Ord(b[i])

\* C25 as stated: the Tables of the record files come first, in ascending
\* order of file name, then the Tables of the ROOT files, in ascending order
\* of file name; the name of each Table is the name of its file without the
\* extension.
C25_Original ==
    \E k \in 0..Len(LoopNames) :
       /\ \A i \in 1..k : (LoopNames[i] \o sDotYaml) \in fs.yaml_dir
       /\ \A i \in (k + 1)..Len(LoopNames) :
             (LoopNames[i] \o sDotRoot) \in fs.data_dir
       /\ \A i \in 1..(Len(LoopNames) - 1) :
             i # k => Precedes(LoopNames[i], LoopNames[i + 1])

(***************************************************************************)
(* Properties of the Table of process_single_figure.                       *)
(***************************************************************************)
\* the histograms of the canvas that are to be retained, in their order
Retained == FirstSeenUpTo(histograms, Len(histograms))

\* C26: when at least one histogram is retained, the first Variable of the
\* Table added is independent, binned and without uncertainty, its values are
\* the pairs [low edge, low edge + width] of the bins of the first retained
\* histogram, one for each bin, and no other Variable is independent.
C26_OneIndependentVariable ==
    (FigureReturnedTrue /\ Retained # <<>>) =>
      LET first == Retained[1]
          variables == LastTable.variables
      IN /\ LastTable.name = figure_name
         /\ variables # <<>>
         /\ variables[1].is_independent
         /\ variables[1].is_binned
         /\ variables[1].uncertainties = <<>>
         /\ Len(variables[1].values) = Len(first.bins)
         /\ \A i \in 1..Len(first.bins) :
               variables[1].values[i]
                  = << first.bins[i].low, first.bins[i].low + first.bins[i].width >>
         /\ \A j \in 2..Len(variables) : ~variables[j].is_independent

\* a canvas with a ratio histogram, then Y with 3 bins, then X with 2 bins:
\* the independent Variable has the 3 bins of Y
C26_Witness ==
    /\ FigureReturnedTrue
    /\ histograms = <<hRatio, hY, hX>>
    /\ Len(LastTable.variables) = 3
    /\ LastTable.variables[1].values = << <<0, 10>>, <<10, 20>>, <<20, 30>> >>

\* the contents of the bins of a histogram
Contents(hist) == [i \in 1..Len(hist.bins) |-> hist.bins[i].content]

\* C27: the Table added has one dependent Variable for each retained
\* histogram, in their order, with the contents of its bins as values, the
\* name made from its identifier and a qualifier SQRT(S); the canvas with a
\* ratio histogram, X, X_copy and Y gives 2 dependent Variables, of X then
\* of Y, and the independent Variable has the bins of X.
C27_OneDependentPerRetained ==
    FigureReturnedTrue =>
      LET deps == VariablesOfKind(LastTable, FALSE)
      IN /\ LastTable.name = figure_name
         /\ Len(deps) = Len(Retained)
         /\ \A j \in 1..Len(Retained) :
               /\ deps[j].values = Contents(Retained[j])
               /\ deps[j].name = FirstMatch(figure_name, Retained[j].name)
               /\ \E q \in 1..Len(deps[j].qualifiers) :
                     deps[j].qualifiers[q].name = <<"SQRT(S)">>
         /\ histograms = <<hRatio, hX, hXcopy, hY>> =>
               /\ Len(deps) = 2
               /\ deps[1].name = Placeholder(sX)
               /\ deps[1].values = <<5, 6>>
               /\ deps[2].name = Placeholder(sY)
               /\ deps[2].values = <<7, 8, 9>>
               /\ Len(VariablesOfKind(LastTable, TRUE)) = 1
               /\ LastTable.variables[1].values = << <<0, 10>>, <<10, 20>> >>

\* the function has returned True for the canvas with a ratio histogram, X,
\* X_copy and Y
C27_Witness ==
    /\ FigureReturnedTrue
    /\ histograms = <<hRatio, hX, hXcopy, hY>>
    /\ Len(LastTable.variables) = 3
    /\ LastTable.variables[2].name = Placeholder(sX)
    /\ LastTable.variables[3].name = Placeholder(sY)

\* C28 as stated: in the Table added, the dependent Variables of two retained
\* histograms never have the same name.
C28_Original ==
    FigureReturnedTrue =>
      LET deps == VariablesOfKind(LastTable, FALSE)
      IN \A i \in 1..Len(deps) :
            \A j \in 1..Len(deps) : i # j => deps[i].name # deps[j].name

\* the identifier without the mark "_copy" at its end
WithoutCopySuffix(name) ==
    IF /\ Len(name) >= Len(sCopy)
       /\ SubSeq(name, Len(name) - Len(sCopy) + 1, Len(name)) = sCopy
    THEN SubSeq(name, 1, Len(name) - Len(sCopy))
    ELSE name

\* C29 as stated: "_copy" counts only at the end of an identifier; a
\* histogram that is not of a ratio panel is left out only when a histogram
\* before it in the canvas has the same identifier up to a "_copy" at the
\* end, so "A_copyB" and "AB" are both retained.
C29_Original ==
    FilterDone =>
      \A j \in 1..Len(histograms) :
         (/\ ~RatioPanel(histograms[j])
          /\ \A k \in 1..Len(unique_histograms) :
                unique_histograms[k] # histograms[j])
         => \E i \in 1..(j - 1) :
               /\ ~RatioPanel(histograms[i])
               /\ WithoutCopySuffix(histograms[i].name)
                     = WithoutCopySuffix(histograms[j].name)

(***************************************************************************)
(* Properties of the tally.                                                *)
(***************************************************************************)
\* main is between two calls of its loops, or between or after the loops
BetweenCalls == pc \in {"yaml_loop", "root_dir", "root_loop", "summary"}

\* C30: whenever main is between two calls of its loops, or has left the
\* loops, successful_figures is the number of Tables the loops have added;
\* a call that returns True has added one Table, a call that returns False
\* none.
C30_TallyExact ==
    [][/\ BetweenCalls' => successful_figures' = Len(LoopNames')
       /\ (~Returned /\ Returned') =>
             Len(tables') = Len(tables) + (IF ret' = "True" THEN 1 ELSE 0)
       /\ Returned =>
             successful_figures'
                = successful_figures + (IF ret = "True" THEN 1 ELSE 0)]_vars

\* the loops are over: of two ROOT files one gave a Table and one did not
C30_Witness ==
    /\ pc = "summary"
    /\ Len(root_files) = 2
    /\ successful_figures = 1
    /\ Len(LoopNames) = 1

====
